---------------------------- MODULE Spec2Model ----------------------------
(***************************************************************************)
(* jupyter-mynerva: the notebook ContextEngine (context.ts) and the        *)
(* Mynerva panel component (panel.tsx, five-status variant) as state       *)
(* machines.                                                               *)
(*                                                                         *)
(* Strings that the code inspects character by character (cell sources,    *)
(* cell types, hashes) are sequences of UTF-16 code units (numbers).       *)
(* Cell indices are 0-based as in the code; a sequence position is the     *)
(* index plus one.                                                         *)
(***************************************************************************)
EXTENDS Integers, Sequences, FiniteSets, TLC

VARIABLES
    \* ---- JupyterLab notebook tracker, as seen by ContextEngine
    current,        \* path of notebookTracker.currentWidget, or "none"
    notebooks,      \* path -> [cells, active, selected]
    nextCellId,     \* id given to the next inserted cell
    engineCall,     \* last ContextEngine call: operation, arguments, notebook before
    engineResult,   \* what that call returned or threw
    \* ---- MynervaComponent: React state
    messages,           \* IMessage[]
    loading,
    actionStatuses,     \* <<msgIndex, actionIndex>> -> status; absent: pending
    pendingResults,     \* queue of action results waiting to be sent
    autoApproved,       \* notebook path -> set of action types
    filters,            \* IFilter[] read from the server on mount
    filterEnabled,      \* the privacy filter checkbox
    validated,          \* last validateActions evaluation
    fileAutoApproved,   \* target path -> set of file query types
    sessionId,          \* 0: null
    \* ---- MynervaComponent: refs
    executingActionsRef,
    abortControllerRef, \* id of the controller, 0: null
    \* ---- asynchronous work in flight
    chats,          \* handleSendMessage / sendResults calls awaiting the server
    batch,          \* the executeBatch call suspended on an asynchronous action
    sessionOps,     \* handleNewSession / handleSessionSwitch calls awaiting the server
    \* ---- the server's session store
    store,          \* session id -> messages last saved
    \* ---- React bookkeeping: what the last render saw
    rendered,
    \* ---- what the environment may still do, and identities given so far
    budget,
    nextId,
    \* ---- observations
    execCount,      \* <<message id, actionIndex>> -> times an operation ran for it
    trail,          \* <<message id, actionIndex>> -> the status last shown for it
    lastTurn,       \* the last finished processLLMResponse turn
    observed,       \* what held at each start of executeBatch and of an execution
    autoResult,     \* last isActionAutoApproved evaluation
    \* ---- the simple-variant panel (panel.tsx)
    applying        \* handleActionApply calls awaiting executeMutateAction

engineVars == <<current, notebooks, nextCellId, engineCall, engineResult>>

panelVars == <<messages, loading, actionStatuses, pendingResults, autoApproved,
               fileAutoApproved, sessionId, executingActionsRef, abortControllerRef,
               chats, batch, sessionOps, store, rendered, budget, nextId,
               execCount, trail, lastTurn, observed, autoResult, filters, filterEnabled, validated, applying>>

vars == <<current, notebooks, nextCellId, engineCall, engineResult,
          messages, loading, actionStatuses, pendingResults, autoApproved,
          fileAutoApproved, sessionId, executingActionsRef, abortControllerRef,
          chats, batch, sessionOps, store, rendered, budget, nextId,
          execCount, trail, lastTurn, observed, autoResult, filters, filterEnabled, validated, applying>>

-----------------------------------------------------------------------------
(* Bounds of the model *)

\* Most cells a notebook of the engine specification holds
MaxCells == 2

\* What the user and the servers may do in a run of the panel
MaxSends == 3
MaxCalls == 3
MaxCancels == 1
MaxFailures == 1
MaxNbSwitches == 1

\* The same in a run with session operations
MaxSessionSends == 1
MaxSessionCalls == 2
MaxSessionOps == 2

\* Model calls in a run that looks at the retries of a turn
MaxTurnCalls == 4

-----------------------------------------------------------------------------
(* Strings as code units *)

Str_code == <<99, 111, 100, 101>>
Str_markdown == <<109, 97, 114, 107, 100, 111, 119, 110>>
Str_raw == <<114, 97, 119>>

TypeCodes(type) ==
    CASE type = "code" -> Str_code
      [] type = "markdown" -> Str_markdown
      [] type = "raw" -> Str_raw

\* s.includes(t)
Includes(s, t) ==
    \E k \in 0..(Len(s) - Len(t)) :
        \A j \in 1..Len(t) : s[k + j] = t[j]

-----------------------------------------------------------------------------
(* computeCellHash: djb2 over type + NUL + source, 32-bit, hexadecimal.   *)
(* A 32-bit value is the pair <<hi, lo>> of its 16-bit halves, so that no *)
(* intermediate product leaves the range of the checker's integers.       *)

RECURSIVE Xor16(_, _)
Xor16(a, b) ==
    IF a = 0 THEN b
    ELSE IF b = 0 THEN a
    ELSE (((a % 2) + (b % 2)) % 2) + 2 * Xor16(a \div 2, b \div 2)

\* (hash * 33) ^ c, kept to 32 bits
HashStep(h, c) ==
    LET lo33 == h[2] * 33
        hi33 == h[1] * 33 + (lo33 \div 65536)
    IN  <<hi33 % 65536, Xor16(lo33 % 65536, c)>>

RECURSIVE HashFold(_, _, _)
HashFold(h, str, i) ==
    IF i > Len(str) THEN h ELSE HashFold(HashStep(h, str[i]), str, i + 1)

RECURSIVE HexDigits(_, _)
\* the n lowest hexadecimal digits of v, most significant first
HexDigits(v, n) ==
    IF n = 0 THEN <<>> ELSE Append(HexDigits(v \div 16, n - 1), v % 16)

RECURSIVE StripZeros(_)
StripZeros(d) ==
    IF Len(d) > 1 /\ d[1] = 0 THEN StripZeros(Tail(d)) ELSE d

\* (hash >>> 0).toString(16): no leading zeros
ToHex(h) == StripZeros(HexDigits(h[1], 4) \o HexDigits(h[2], 4))

ComputeCellHash(type, source) ==
    ToHex(HashFold(<<0, 5381>>, TypeCodes(type) \o <<0>> \o source, 1))

-----------------------------------------------------------------------------
(* ContextEngine (context.ts).  A notebook is [cells, active]: cells a     *)
(* sequence of [id, type, source], active the widget's activeCellIndex.   *)
(* Every operation yields [ok, err, val, nb]: what it returned (val) or    *)
(* the error it threw (err), and the notebook it leaves (nb).              *)

Throw(nb, err) == [ok |-> FALSE, err |-> err, val |-> <<>>, nb |-> nb]
Return(nb, val) == [ok |-> TRUE, err |-> "", val |-> val, nb |-> nb]

GetActiveCellIndex(nb) == nb.active

\* notebook.selectedCells holds the active cell when nothing else is selected
GetSelectedCellIndices(nb) ==
    IF nb.active >= 0 /\ nb.active < Len(nb.cells) THEN {nb.active} ELSE {}

QueryKeys == {"start", "id", "contains", "match", "active", "selected"}

\* the chain of `'key' in query` tests; a query with none of the keys throws.
\* A `match` pattern is a literal here, so the RegExp test is a substring test.
MatchesQuery(cell, index, query, activeCellIndex, selectedIndices) ==
    IF "start" \in DOMAIN query THEN index = query.start
    ELSE IF "id" \in DOMAIN query THEN cell.id = query.id
    ELSE IF "contains" \in DOMAIN query THEN Includes(cell.source, query.contains)
    ELSE IF "match" \in DOMAIN query THEN Includes(cell.source, query.match)
    ELSE IF "active" \in DOMAIN query THEN index = activeCellIndex
    ELSE index \in selectedIndices

\* index of the first matching cell; -1: 'No cell matches query'; -2: 'Invalid query'
FindCellIndex(nb, query) ==
    LET hits == {i \in 0..(Len(nb.cells) - 1) :
                    MatchesQuery(nb.cells[i + 1], i, query,
                                 GetActiveCellIndex(nb), GetSelectedCellIndices(nb))}
    IN  IF Len(nb.cells) > 0 /\ DOMAIN query \cap QueryKeys = {} THEN -2
        ELSE IF hits = {} THEN -1
        ELSE CHOOSE i \in hits : \A j \in hits : i <= j

FindError(index) == IF index = -2 THEN "InvalidQuery" ELSE "NoMatch"

\* a variant whose `_hash` takes every cell for a raw cell
CellToData_HashOfSource(cell, index, activeCellIndex, selectedIndices) ==
    [index |-> index, id |-> cell.id, type |-> cell.type, source |-> cell.source,
     isActive |-> (index = activeCellIndex),
     isSelected |-> (index \in selectedIndices),
     hash |-> ComputeCellHash("raw", cell.source)]

CellToData(cell, index, activeCellIndex, selectedIndices) ==
    [index |-> index, id |-> cell.id, type |-> cell.type, source |-> cell.source,
     isActive |-> (index = activeCellIndex),
     isSelected |-> (index \in selectedIndices),
     hash |-> ComputeCellHash(cell.type, cell.source)]

Min(a, b) == IF a <= b THEN a ELSE b

\* queryCells(query, count); count = -1 stands for an absent count
QueryCells(nb, query, count) ==
    LET startIndex == FindCellIndex(nb, query)
        \* `count ? Math.min(startIndex + count, length) : length`
        endIndex == IF count # -1 /\ count # 0
                    THEN Min(startIndex + count, Len(nb.cells))
                    ELSE Len(nb.cells)
    IN  IF startIndex < 0 THEN Throw(nb, FindError(startIndex))
        ELSE Return(nb, [k \in 1..(IF endIndex > startIndex THEN endIndex - startIndex ELSE 0) |->
                            CellToData(nb.cells[startIndex + k], startIndex + k - 1,
                                       GetActiveCellIndex(nb), GetSelectedCellIndices(nb))])

InsertAt(seq, pos, x) ==
    [k \in 1..(Len(seq) + 1) |->
        IF k < pos THEN seq[k] ELSE IF k = pos THEN x ELSE seq[k - 1]]

RemoveAt(seq, pos) ==
    [k \in 1..(Len(seq) - 1) |-> IF k < pos THEN seq[k] ELSE seq[k + 1]]

\* insertCell(position, cellType, source); newId is the id the shared model gives
InsertCell(nb, position, cellType, source, newId) ==
    LET found == IF position = "end" THEN Len(nb.cells) - 1
                 ELSE FindCellIndex(nb, position)
        insertIndex == found + 1
        cell == [id |-> newId, type |-> cellType, source |-> source]
        after == [nb EXCEPT !.cells = InsertAt(nb.cells, insertIndex + 1, cell),
                            !.active = insertIndex]
    IN  IF position # "end" /\ found < 0 THEN Throw(nb, FindError(found))
        ELSE Return(after, CellToData(cell, insertIndex, insertIndex,
                                      GetSelectedCellIndices(nb)))

\* a variant that writes the source before it compares the hashes
UpdateCell_WriteFirst(nb, query, source, hash) ==
    LET index == FindCellIndex(nb, query)
        cell == nb.cells[index + 1]
        after == [nb EXCEPT !.cells[index + 1].source = source, !.active = index]
    IN  IF index < 0 THEN Throw(nb, FindError(index))
        ELSE IF ComputeCellHash(cell.type, cell.source) # hash
             THEN Throw(after, "HashMismatch")
        ELSE Return(after, CellToData(after.cells[index + 1], index, index,
                                      GetSelectedCellIndices(nb)))

\* updateCell(query, source, _hash)
UpdateCell(nb, query, source, hash) ==
    LET index == FindCellIndex(nb, query)
        cell == nb.cells[index + 1]
        after == [nb EXCEPT !.cells[index + 1].source = source, !.active = index]
    IN  IF index < 0 THEN Throw(nb, FindError(index))
        ELSE IF ComputeCellHash(cell.type, cell.source) # hash
             THEN Throw(nb, "HashMismatch")
        ELSE Return(after, CellToData(after.cells[index + 1], index, index,
                                      GetSelectedCellIndices(nb)))

\* deleteCell(query, _hash)
DeleteCell(nb, query, hash) ==
    LET index == FindCellIndex(nb, query)
        cell == nb.cells[index + 1]
        newCellCount == Len(nb.cells) - 1
        after == [nb EXCEPT !.cells = RemoveAt(nb.cells, index + 1),
                            !.active = IF newCellCount > 0
                                       THEN Min(index, newCellCount - 1)
                                       ELSE nb.active]
    IN  IF index < 0 THEN Throw(nb, FindError(index))
        ELSE IF ComputeCellHash(cell.type, cell.source) # hash
             THEN Throw(nb, "HashMismatch")
        ELSE Return(after, [index |-> index, id |-> cell.id])

\* runCell(query) up to its first await: resolve the cell and make it active
RunCellBegin(nb, query) ==
    LET index == FindCellIndex(nb, query)
    IN  IF index < 0 THEN Throw(nb, FindError(index))
        ELSE Return([nb EXCEPT !.active = index],
                    [index |-> index, id |-> nb.cells[index + 1].id])

-----------------------------------------------------------------------------
(* Action vocabulary (panel.tsx) and validator (actions/validator.ts)     *)

QUERY_ACTION_TYPES ==
    {"getToc", "getSection", "getCells", "getOutput", "listNotebookFiles",
     "getTocFromFile", "getSectionFromFile", "getCellsFromFile", "getOutputFromFile"}

MUTATE_ACTION_TYPES == {"insertCell", "updateCell", "deleteCell", "runCell"}

FILE_QUERY_TYPES ==
    {"listNotebookFiles", "getTocFromFile", "getSectionFromFile",
     "getCellsFromFile", "getOutputFromFile"}

\* "higher level permits lower levels"
QUERY_HIERARCHY ==
    [getOutput |-> {"getCells", "getSection", "getToc"},
     getCells |-> {"getSection", "getToc"},
     getSection |-> {"getToc"},
     getToc |-> {}]

IsQueryAction(action) == action.type \in QUERY_ACTION_TYPES

IsMutateAction(action) == action.type \in MUTATE_ACTION_TYPES

\* a variant in which the permitted action implies the approved one
IsQueryAutoApproved_Reversed(approvedTypes, actionType) ==
    \/ actionType \in approvedTypes
    \/ \E approved \in DOMAIN QUERY_HIERARCHY :
          /\ approved \in approvedTypes
          /\ actionType \in DOMAIN QUERY_HIERARCHY
          /\ approved \in QUERY_HIERARCHY[actionType]

IsQueryAutoApproved(approvedTypes, actionType) ==
    \/ actionType \in approvedTypes
    \/ \E approved \in DOMAIN QUERY_HIERARCHY :
          /\ approved \in approvedTypes
          /\ actionType \in QUERY_HIERARCHY[approved]

IsFileQueryAction(action) == action.type \in FILE_QUERY_TYPES

GetFileQueryTargetPath(action) ==
    IF action.type = "listNotebookFiles"
    THEN (IF "path" \in DOMAIN action THEN action.path ELSE "")
    ELSE action.path

\* ACTION_SCHEMAS: the required and optional fields of each type; the `_hash`
\* field is written hash
ACTION_SCHEMAS ==
    [getToc |-> [required |-> {}, optional |-> {}],
     getSection |-> [required |-> {"query"}, optional |-> {}],
     getCells |-> [required |-> {"query"}, optional |-> {"count"}],
     getOutput |-> [required |-> {"query"}, optional |-> {}],
     listNotebookFiles |-> [required |-> {}, optional |-> {"path"}],
     getTocFromFile |-> [required |-> {"path"}, optional |-> {}],
     getSectionFromFile |-> [required |-> {"path", "query"}, optional |-> {}],
     getCellsFromFile |-> [required |-> {"path", "query"}, optional |-> {"count"}],
     getOutputFromFile |-> [required |-> {"path", "query"}, optional |-> {}],
     insertCell |-> [required |-> {"position", "cellType", "source"}, optional |-> {}],
     updateCell |-> [required |-> {"query", "source", "hash"}, optional |-> {}],
     deleteCell |-> [required |-> {"query", "hash"}, optional |-> {}],
     runCell |-> [required |-> {"query"}, optional |-> {}],
     listHelp |-> [required |-> {}, optional |-> {}],
     help |-> [required |-> {"action"}, optional |-> {}]]

\* the characters of the field names, and of some names no schema knows
Spell(name) ==
    CASE name = "type" -> <<"t", "y", "p", "e">>
      [] name = "path" -> <<"p", "a", "t", "h">>
      [] name = "position" -> <<"p", "o", "s", "i", "t", "i", "o", "n">>
      [] name = "cellType" -> <<"c", "e", "l", "l", "T", "y", "p", "e">>
      [] name = "query" -> <<"q", "u", "e", "r", "y">>
      [] name = "source" -> <<"s", "o", "u", "r", "c", "e">>
      [] name = "hash" -> <<"_", "h", "a", "s", "h">>
      [] name = "count" -> <<"c", "o", "u", "n", "t">>
      [] name = "action" -> <<"a", "c", "t", "i", "o", "n">>
      [] name = "qeury" -> <<"q", "e", "u", "r", "y">>
      [] name = "Query" -> <<"Q", "u", "e", "r", "y">>
      [] name = "sourc" -> <<"s", "o", "u", "r", "c">>

\* String.toLowerCase
ToLowerCase(str) ==
    [i \in 1..Len(str) |->
        CASE str[i] = "Q" -> "q" [] str[i] = "T" -> "t" [] OTHER -> str[i]]

\* the order in which the schemas list their fields
FieldOrder ==
    <<"type", "path", "position", "cellType", "query", "source", "hash", "count", "action">>

\* ['type', ...schema.required, ...schema.optional]
AllKnownFields(schema) ==
    LET Known(f) == f \in {"type"} \cup schema.required \cup schema.optional
    IN  SelectSeq(FieldOrder, Known)

\* findSimilarField: the first known field that equals the unknown one up to
\* case, or contains it, or is contained in it ("": null)
FindSimilarField(unknownField, knownFields) ==
    LET lower == ToLowerCase(Spell(unknownField))
        Similar(field) ==
            \/ ToLowerCase(Spell(field)) = lower
            \/ Includes(lower, ToLowerCase(Spell(field)))
            \/ Includes(ToLowerCase(Spell(field)), lower)
        hits == SelectSeq(knownFields, Similar)
    IN  IF hits = <<>> THEN "" ELSE Head(hits)

\* validateAction: the set of errors of one action (an action here is always
\* an object with a string `type`); similar is the field named in "did you
\* mean", "" when the error lists the valid fields instead
ValidateAction(action, index) ==
    IF action.type \notin DOMAIN ACTION_SCHEMAS
    THEN {[index |-> index, error |-> "UnknownType", field |-> action.type, similar |-> ""]}
    ELSE LET schema == ACTION_SCHEMAS[action.type]
             allKnownFields == {"type"} \cup schema.required \cup schema.optional
         IN  {[index |-> index, error |-> "MissingField", field |-> f, similar |-> ""] :
                    f \in schema.required \ DOMAIN action}
             \cup {[index |-> index, error |-> "UnknownField", field |-> k,
                     similar |-> FindSimilarField(k, AllKnownFields(schema))] :
                    k \in DOMAIN action \ allKnownFields}

\* validateActions: valid iff no action has an error
ValidateActions(actions) ==
    LET allErrors == UNION {ValidateAction(actions[k], k - 1) : k \in 1..Len(actions)}
    IN  [valid |-> allErrors = {}, errors |-> allErrors]

-----------------------------------------------------------------------------
(* Response parser (actions/parser.ts).  A raw reply is                    *)
(* [text, decodable, says, actions]: its text (an identity), whether the   *)
(* text is a JSON document once the code fences are stripped, and the      *)
(* `messages` contents and `actions` of the decoded value.                 *)

ParseRawContent(rawContent) ==
    IF ~rawContent.decodable
    THEN [response |-> [messages |-> <<>>, actions |-> <<>>], warning |-> TRUE]
    ELSE [response |-> [messages |-> rawContent.says, actions |-> rawContent.actions],
          warning |-> FALSE]

-----------------------------------------------------------------------------
(* MynervaComponent (panel.tsx): state, setters and derived values.  The  *)
(* handlers are functions of the whole state, taken as one record, so     *)
(* that a handler, the render it causes and the effects of that render    *)
(* compose.                                                               *)

MAX_RETRIES == 2

Paths == {"X", "Y"}
FilePaths == {"p.ipynb"}

Now ==
    [current |-> current, notebooks |-> notebooks, nextCellId |-> nextCellId,
     messages |-> messages, loading |-> loading, actionStatuses |-> actionStatuses,
     pendingResults |-> pendingResults, autoApproved |-> autoApproved,
     fileAutoApproved |-> fileAutoApproved, sessionId |-> sessionId,
     executingActionsRef |-> executingActionsRef,
     abortControllerRef |-> abortControllerRef,
     chats |-> chats, batch |-> batch, sessionOps |-> sessionOps, store |-> store,
     rendered |-> rendered, budget |-> budget, nextId |-> nextId,
     execCount |-> execCount, lastTurn |-> lastTurn, observed |-> observed]

NoBatch == [on |-> FALSE, msgs |-> <<>>, sts |-> <<>>, m |-> 0, i |-> 0]
NoTurn ==
    [kind |-> "", raws |-> <<>>, base |-> <<>>, result |-> <<>>, calls |-> 0, retryCount |-> 0]

Message(id, role, kind, text, results, acts, generated) ==
    [id |-> id, role |-> role, kind |-> kind, text |-> text, results |-> results,
     acts |-> acts, generated |-> generated]

GetActionStatus(statuses, msgIndex, actionIndex) ==
    IF <<msgIndex, actionIndex>> \in DOMAIN statuses
    THEN statuses[<<msgIndex, actionIndex>>]
    ELSE "pending"

\* messages.some(msg => actions.some(status pending or approved))
\* a variant that lets the input go once nothing is left to decide
HasPendingActions_PendingOnly(msgs, statuses) ==
    \E m \in 0..(Len(msgs) - 1) : \E i \in 0..(Len(msgs[m + 1].acts) - 1) :
        GetActionStatus(statuses, m, i) = "pending"

HasPendingActions(msgs, statuses) ==
    \E m \in 0..(Len(msgs) - 1) : \E i \in 0..(Len(msgs[m + 1].acts) - 1) :
        GetActionStatus(statuses, m, i) \in {"pending", "approved"}

SetMessages(st, msgs) ==
    [st EXCEPT !.messages = msgs, !.rendered.touched = @ \cup {"messages"}]

SetLoading(st, b) == [st EXCEPT !.loading = b]

SetActionStatus(st, msgIndex, actionIndex, status) ==
    [st EXCEPT !.actionStatuses =
                    [k \in DOMAIN @ \cup {<<msgIndex, actionIndex>>} |->
                        IF k = <<msgIndex, actionIndex>> THEN status ELSE @[k]],
               !.rendered.touched = @ \cup {"statuses"}]

SetPendingResults(st, results) ==
    [st EXCEPT !.pendingResults = results, !.rendered.touched = @ \cup {"results"}]

HandleActionApprove(st, msgIndex, actionIndex) ==
    SetActionStatus(st, msgIndex, actionIndex, "approved")

HandleActionReject(st, msgIndex, actionIndex) ==
    SetActionStatus(st, msgIndex, actionIndex, "rejected")

HasActiveNotebook(st) == st.current # "none"

\* addAutoApproval; getNotebookPath throws when no notebook is open, and the
\* grant is then not recorded
AddAutoApproval(st, action) ==
    IF IsFileQueryAction(action)
    THEN [st EXCEPT !.fileAutoApproved[GetFileQueryTargetPath(action)] =
                        @ \cup {action.type},
                    !.rendered.touched = @ \cup {"fileAuto"}]
    ELSE IF ~HasActiveNotebook(st) THEN st
    ELSE [st EXCEPT !.autoApproved[st.current] = @ \cup {action.type},
                    !.rendered.touched = @ \cup {"auto"}]

\* a variant in which a file grant approves its type on every path
IsActionAutoApproved_AnyPath(auto, fileAuto, cur, action) ==
    IF IsFileQueryAction(action)
    THEN \E p \in DOMAIN fileAuto : action.type \in fileAuto[p]
    ELSE IF cur = "none" THEN FALSE
    ELSE IF auto[cur] = {} THEN FALSE
    ELSE IF IsQueryAction(action) THEN IsQueryAutoApproved(auto[cur], action.type)
    ELSE action.type \in auto[cur]

\* a variant that lets any grant on the active notebook approve any live action
IsActionAutoApproved_AnyGrant(auto, fileAuto, cur, action) ==
    IF IsFileQueryAction(action)
    THEN action.type \in fileAuto[GetFileQueryTargetPath(action)]
    ELSE IF cur = "none" THEN FALSE
    ELSE auto[cur] # {}

\* isActionAutoApproved: the grant maps as rendered, the notebook tracker live
IsActionAutoApproved(auto, fileAuto, cur, action) ==
    IF IsFileQueryAction(action)
    THEN action.type \in fileAuto[GetFileQueryTargetPath(action)]
    ELSE IF cur = "none" THEN FALSE
    ELSE IF auto[cur] = {} THEN FALSE
    ELSE IF IsQueryAction(action) THEN IsQueryAutoApproved(auto[cur], action.type)
    ELSE action.type \in auto[cur]

HandleActionApproveAlways(st, msgIndex, actionIndex, action) ==
    AddAutoApproval(HandleActionApprove(st, msgIndex, actionIndex), action)

RECURSIVE AcceptLoop(_, _, _, _, _)
\* the loop of handleAcceptAll (always = FALSE) and handleAcceptAllAlways; the
\* statuses tested are those of the render the handler belongs to
AcceptLoop(st, seen, msgIndex, i, always) ==
    LET actions == seen.messages[msgIndex + 1].acts
    IN  IF i >= Len(actions) THEN st
        ELSE IF GetActionStatus(seen.actionStatuses, msgIndex, i) # "pending"
             THEN AcceptLoop(st, seen, msgIndex, i + 1, always)
        ELSE IF ~always
             THEN AcceptLoop(HandleActionApprove(st, msgIndex, i), seen, msgIndex, i + 1, always)
        ELSE IF ~IsFileQueryAction(actions[i + 1]) /\ ~HasActiveNotebook(st)
             \* addAutoApproval throws: the handler ends here
             THEN HandleActionApprove(st, msgIndex, i)
        ELSE AcceptLoop(AddAutoApproval(HandleActionApprove(st, msgIndex, i), actions[i + 1]),
                        seen, msgIndex, i + 1, always)

HandleAcceptAll(st, msgIndex) == AcceptLoop(st, st, msgIndex, 0, FALSE)

HandleAcceptAllAlways(st, msgIndex) == AcceptLoop(st, st, msgIndex, 0, TRUE)

RECURSIVE RejectLoop(_, _, _, _)
RejectLoop(st, seen, msgIndex, i) ==
    IF i >= Len(seen.messages[msgIndex + 1].acts) THEN st
    ELSE IF GetActionStatus(seen.actionStatuses, msgIndex, i) # "pending"
         THEN RejectLoop(st, seen, msgIndex, i + 1)
    ELSE RejectLoop(HandleActionReject(st, msgIndex, i), seen, msgIndex, i + 1)

HandleRejectAll(st, msgIndex) == RejectLoop(st, st, msgIndex, 0)

-----------------------------------------------------------------------------
(* Executing actions: executeQueryAction, executeMutateAction,            *)
(* executeApprovedAction and the executeBatch effect.                     *)
(* A result entry is [type, outcome, detail, src]: outcome is "result",   *)
(* "error" or "rejected"; src names the message and action it is for.     *)

Entry(type, outcome, detail, src) ==
    [type |-> type, outcome |-> outcome, detail |-> detail, src |-> src]

\* the entry for what a ContextEngine call returned or threw
EngineEntry(action, r, src) ==
    IF r.ok THEN Entry(action.type, "result", "", src)
    ELSE Entry(action.type, "error", r.err, src)

CountOf(action) == IF "count" \in DOMAIN action THEN action.count ELSE -1

\* The synchronous part of executeApprovedAction's call of executeQueryAction or
\* executeMutateAction: [st, io, entry].  io: the call awaits the server or the
\* kernel, and its entry comes later.
ExecuteBegin(st, action, src) ==
    LET nb == st.notebooks[st.current]
        WithNb(r) == [st |-> [st EXCEPT !.notebooks[st.current] = r.nb],
                      io |-> FALSE, entry |-> EngineEntry(action, r, src)]
        Sync(entry) == [st |-> st, io |-> FALSE, entry |-> entry]
        NoNotebook == Sync(Entry(action.type, "error", "NoNotebook", src))
    IN  IF IsQueryAction(action)
        THEN IF IsFileQueryAction(action)
             THEN [st |-> st, io |-> TRUE, entry |-> Entry(action.type, "result", "", src)]
             ELSE IF ~HasActiveNotebook(st) THEN NoNotebook
             ELSE IF action.type = "getCells"
                  THEN IF "query" \in DOMAIN action
                       THEN WithNb(QueryCells(nb, action.query, CountOf(action)))
                       ELSE Sync(Entry(action.type, "error", "TypeError", src))
             ELSE Sync(Entry(action.type, "result", "", src))
        ELSE IF action.type \in {"insertCell", "updateCell", "deleteCell", "runCell"}
        THEN IF ~HasActiveNotebook(st) THEN NoNotebook
             ELSE IF action.type = "insertCell"
                  THEN LET r == InsertCell(nb, action.position, action.cellType,
                                           action.source, st.nextCellId)
                       IN  [WithNb(r) EXCEPT !.st.nextCellId = @ + 1]
             ELSE IF action.type = "updateCell"
                  THEN WithNb(UpdateCell(nb, action.query, action.source, action.hash))
             ELSE IF action.type = "deleteCell"
                  THEN WithNb(DeleteCell(nb, action.query, action.hash))
             ELSE LET r == RunCellBegin(nb, action.query)
                  IN  [WithNb(r) EXCEPT !.io = r.ok]
        \* executeMutateAction's default branch returns, it does not throw
        ELSE Sync(Entry("unknown", "error", "Unknown action type", src))

\* a variant in which an action that threw is left as it was
ExecuteEnd_DropsErrors(st, msgIndex, actionIndex, entry) ==
    IF entry.outcome = "error" THEN st
    ELSE SetActionStatus(SetPendingResults(st, Append(st.pendingResults, entry)),
                         msgIndex, actionIndex, "executed")

\* the end of executeApprovedAction: queue the result, mark the action executed
ExecuteEnd(st, msgIndex, actionIndex, entry) ==
    SetActionStatus(SetPendingResults(st, Append(st.pendingResults, entry)),
                    msgIndex, actionIndex, "executed")

\* the status the map holds for an action, "absent" when it holds none
HeldStatus(statuses, msgIndex, actionIndex) ==
    IF <<msgIndex, actionIndex>> \in DOMAIN statuses
    THEN statuses[<<msgIndex, actionIndex>>]
    ELSE "absent"

\* observations made when executeApprovedAction is called for action
\* actionIndex of msgs[msgIndex + 1]: the status the action has in the state at
\* that moment, whether an action of the message is pending in that state
\* (open), and how many times an operation has run for the action
NoteExecution(st, msgs, msgIndex, actionIndex, src) ==
    [st EXCEPT !.observed = @ \cup
                 {[what |-> "execute",
                   status |-> HeldStatus(st.actionStatuses, msgIndex, actionIndex),
                   open |-> \E j \in 0..(Len(msgs[msgIndex + 1].acts) - 1) :
                                    HeldStatus(st.actionStatuses, msgIndex, j)
                                        \in {"absent", "pending"},
                   loading |-> st.loading, running |-> TRUE]},
               !.execCount = [k \in DOMAIN @ \cup {src} |->
                                 IF k = src THEN (IF k \in DOMAIN @ THEN @[k] ELSE 0) + 1
                                 ELSE @[k]]]

\* observation made when executeBatch starts
NoteBatch(st) ==
    [st EXCEPT !.observed = @ \cup
                 {[what |-> "executeBatch", status |-> "", open |-> FALSE,
                   loading |-> st.loading, running |-> st.executingActionsRef]}]

AllDecided(msgs, sts, m) ==
    \A i \in 0..(Len(msgs[m + 1].acts) - 1) : GetActionStatus(sts, m, i) # "pending"

HasStatus(msgs, sts, m, status) ==
    \E i \in 0..(Len(msgs[m + 1].acts) - 1) : GetActionStatus(sts, m, i) = status

\* executeBatch works on a message when all its actions are decided and one needs work
Processable(msgs, sts, m) ==
    /\ Len(msgs[m + 1].acts) > 0
    /\ AllDecided(msgs, sts, m)
    /\ (HasStatus(msgs, sts, m, "approved") \/ HasStatus(msgs, sts, m, "rejected"))

ShouldExecute(status) == status = "approved"

RECURSIVE BatchLoop(_, _, _, _, _)
\* executeBatch from message m, action i, with the messages and statuses of the
\* render it was created in; it runs until it awaits an asynchronous action
\* (st.batch.on) or ends (finally: executingActionsRef.current = false)
BatchLoop(st, msgs, sts, m, i) ==
    IF m >= Len(msgs)
    THEN [st EXCEPT !.executingActionsRef = FALSE, !.batch = NoBatch]
    ELSE IF (i = 0 /\ ~Processable(msgs, sts, m)) \/ i >= Len(msgs[m + 1].acts)
         THEN BatchLoop(st, msgs, sts, m + 1, 0)
    ELSE LET action == msgs[m + 1].acts[i + 1]
             src == <<msgs[m + 1].id, i>>
             status == GetActionStatus(sts, m, i)
         IN  IF ShouldExecute(status)
             THEN LET Begun(b) ==
                          IF b.io
                          THEN [b.st EXCEPT !.batch = [on |-> TRUE, msgs |-> msgs,
                                                       sts |-> sts, m |-> m, i |-> i]]
                          ELSE BatchLoop(ExecuteEnd(b.st, m, i, b.entry),
                                         msgs, sts, m, i + 1)
                  IN  Begun(ExecuteBegin(NoteExecution(st, msgs, m, i, src), action, src))
             ELSE IF status = "rejected"
             THEN BatchLoop(SetActionStatus(
                                SetPendingResults(st, Append(st.pendingResults,
                                    Entry(action.type, "rejected", "", src))),
                                m, i, "notified"),
                            msgs, sts, m, i + 1)
             ELSE BatchLoop(st, msgs, sts, m, i + 1)

\* whether the batch of this render reaches an await (an approved action)
BatchAwaits(msgs, sts) ==
    \E m \in 0..(Len(msgs) - 1) :
        Processable(msgs, sts, m) /\ HasStatus(msgs, sts, m, "approved")

\* a variant of the guard that does not look at executingActionsRef
BatchGuard_NoRef(seen, ref) == ~seen.loading

\* the guard of the executeBatch effect (and of the auto-approve effect)
BatchGuard(seen, ref) == ~seen.loading /\ ~ref

\* the executeBatch effect of a render that saw `seen`
ExecuteBatchEffect(st, seen) ==
    IF ~BatchGuard(seen, st.executingActionsRef) THEN st
    ELSE BatchLoop([NoteBatch(st) EXCEPT !.executingActionsRef = TRUE],
                   seen.messages, seen.actionStatuses, 0, 0)

\* the asynchronous action the batch awaits completes (ok) or fails
ActionSettled(st, ok) ==
    LET b == st.batch
        action == b.msgs[b.m + 1].acts[b.i + 1]
        src == <<b.msgs[b.m + 1].id, b.i>>
        entry == IF ok THEN Entry(action.type, "result", "", src)
                 ELSE Entry(action.type, "error", "Failed", src)
    IN  BatchLoop(ExecuteEnd(st, b.m, b.i, entry), b.msgs, b.sts, b.m, b.i + 1)

-----------------------------------------------------------------------------
(* The conversation: handleSendMessage, sendResults, processLLMResponse,  *)
(* handleCancelLoading.  A call in flight is                              *)
(* [id, kind, phase, base, retry, signal, raws]: kind "send" or "results" *)
(* (the caller), phase "session" (handleSendMessage awaiting              *)
(* createSession) or "chat" (awaiting sendChat), base the message list    *)
(* the call was made with, signal the abort controller it carries (0:     *)
(* none), raws the replies this turn has received so far.                 *)

Chat(id, kind, phase, base, retry, signal, raws) ==
    [id |-> id, kind |-> kind, phase |-> phase, base |-> base, retry |-> retry,
     signal |-> signal, raws |-> raws]

\* a variant whose sendResults has no `finally`: loading stays raised
CallerFinally_SendOnly(st, c) ==
    IF c.kind = "send"
    THEN SetLoading([st EXCEPT !.abortControllerRef = 0], FALSE)
    ELSE st

\* the `finally` of the caller: handleSendMessage also drops the controller
CallerFinally(st, c) ==
    IF c.kind = "send"
    THEN SetLoading([st EXCEPT !.abortControllerRef = 0], FALSE)
    ELSE SetLoading(st, FALSE)

\* the turn is over: the caller sets the messages processLLMResponse returned
TurnReturns(st, c, raw, finalMessages) ==
    CallerFinally(
        [SetMessages(st, finalMessages) EXCEPT
            !.chats = @ \ {c},
            !.lastTurn = [kind |-> c.kind, raws |-> Append(c.raws, raw),
                          base |-> c.base, result |-> finalMessages,
                          calls |-> Len(c.raws) + 1, retryCount |-> c.retry]],
        c)

\* processLLMResponse sends the correction turn and awaits the next reply
Resend(st, c, raw, assistantMessage, feedbackMessage) ==
    LET newMessages == c.base \o <<assistantMessage, feedbackMessage>>
    IN  [SetMessages(st, newMessages) EXCEPT
            !.chats = (@ \ {c}) \cup
                      {Chat(c.id, c.kind, "chat", newMessages, c.retry + 1, c.signal,
                            Append(c.raws, raw))},
            !.budget.calls = @ - 1]

\* a variant that retries while retryCount <= MAX_RETRIES
MayRetry_OffByOne(retryCount) == retryCount <= MAX_RETRIES

MayRetry(retryCount) == retryCount < MAX_RETRIES

\* a variant that keeps the first raw reply of the turn for display
RawShown_First(c, raw) == IF c.raws = <<>> THEN raw.text ELSE c.raws[1].text

\* the raw content shown when the retries are used up
RawShown(c, raw) == raw.text

\* a variant that keeps only an action list that passed validation
ProcessLLMResponse_DropsInvalid(st, c, raw) ==
    LET parseResult == ParseRawContent(raw)
        llmResponse == parseResult.response
        validation == ValidateActions(llmResponse.actions)
        said == llmResponse.messages # <<>>
    IN  IF parseResult.warning
        THEN IF MayRetry(c.retry)
             THEN Resend(st, c, raw,
                    Message(0, "assistant", "(Format error - retrying...)", 0, <<>>, <<>>, FALSE),
                    Message(0, "user", "[Format Error]", raw.text, <<>>, <<>>, TRUE))
             ELSE TurnReturns(st, c, raw,
                    Append(c.base, Message(0, "assistant", "raw", RawShown(c, raw),
                                           <<>>, <<>>, FALSE)))
        ELSE IF ~validation.valid /\ MayRetry(c.retry)
        THEN Resend(st, c, raw,
               Message(0, "assistant",
                       IF said THEN "content" ELSE "(Action format error - retrying...)",
                       raw.text, <<>>, <<>>, FALSE),
               Message(0, "user", "[Action Validation Error]", raw.text, <<>>, <<>>, TRUE))
        ELSE TurnReturns([st EXCEPT !.nextId = @ + 1], c, raw,
               Append(c.base, Message(st.nextId, "assistant",
                                      IF said THEN "content" ELSE "(no message)",
                                      raw.text, <<>>,
                                      IF validation.valid THEN llmResponse.actions ELSE <<>>,
                                      FALSE)))

\* processLLMResponse(rawContent, currentMessages = c.base, retryCount = c.retry)
ProcessLLMResponse(st, c, raw) ==
    LET parseResult == ParseRawContent(raw)
        llmResponse == parseResult.response
        validation == ValidateActions(llmResponse.actions)
        said == llmResponse.messages # <<>>
    IN  IF parseResult.warning
        THEN IF MayRetry(c.retry)
             THEN Resend(st, c, raw,
                    Message(0, "assistant", "(Format error - retrying...)", 0, <<>>, <<>>, FALSE),
                    Message(0, "user", "[Format Error]", raw.text, <<>>, <<>>, TRUE))
             ELSE TurnReturns(st, c, raw,
                    Append(c.base, Message(0, "assistant", "raw", RawShown(c, raw),
                                           <<>>, <<>>, FALSE)))
        ELSE IF ~validation.valid /\ MayRetry(c.retry)
        THEN Resend(st, c, raw,
               Message(0, "assistant",
                       IF said THEN "content" ELSE "(Action format error - retrying...)",
                       raw.text, <<>>, <<>>, FALSE),
               Message(0, "user", "[Action Validation Error]", raw.text, <<>>, <<>>, TRUE))
        ELSE TurnReturns([st EXCEPT !.nextId = @ + 1], c, raw,
               Append(c.base, Message(st.nextId, "assistant",
                                      IF said THEN "content" ELSE "(no message)",
                                      raw.text, <<>>, llmResponse.actions, FALSE)))

\* sendChat throws (the request failed): the caller appends the error message
ChatFails(st, c) ==
    CallerFinally(
        [SetMessages(st, Append(st.messages,
                        Message(0, "assistant", "Error", 0, <<>>, <<>>, FALSE)))
            EXCEPT !.chats = @ \ {c}],
        c)

\* handleSendMessage up to its first await
HandleSendMessage(st) ==
    LET userMessage == Message(st.nextId, "user", "text", 0, <<>>, <<>>, FALSE)
        newMessages == Append(st.messages, userMessage)
        controller == st.nextId
    IN  [SetLoading(SetMessages(st, newMessages), TRUE) EXCEPT
            !.abortControllerRef = controller,
            !.nextId = @ + 1,
            !.budget.sends = @ - 1,
            !.budget.calls = @ - 1,
            !.chats = @ \cup {Chat(controller, "send",
                                   IF st.sessionId = 0 THEN "session" ELSE "chat",
                                   newMessages, 0, controller, <<>>)}]

\* createSession answered: handleSendMessage goes on to sendChat; with its signal
\* already aborted sendChat rejects at once and only the `finally` runs
SessionCreated(st, c, aborted) ==
    LET newId == Len(st.store) + 1
        st1 == [st EXCEPT !.store = Append(@, <<>>), !.sessionId = newId]
    IN  IF aborted
        THEN CallerFinally([st1 EXCEPT !.chats = @ \ {c}], c)
        ELSE [st1 EXCEPT !.chats = (@ \ {c}) \cup {[c EXCEPT !.phase = "chat"]}]

\* handleCancelLoading: prev.slice(0, -1)
CancelMessages(msgs) == SubSeq(msgs, 1, Len(msgs) - 1)

\* handleCancelLoading, and what the abort brings about before anything else
\* runs: the sendChat call carrying the signal rejects with AbortError and
\* handleSendMessage returns through its `finally`
HandleCancelLoading(st) ==
    LET hit == {c \in st.chats : c.signal = st.abortControllerRef /\ c.signal # 0
                                 /\ c.phase = "chat"}
        waiting == {c \in st.chats : c.signal = st.abortControllerRef /\ c.signal # 0
                                     /\ c.phase = "session"}
        st1 == [st EXCEPT !.abortControllerRef = 0,
                          !.chats = (@ \ (hit \cup waiting))
                                    \cup {[c EXCEPT !.phase = "aborted"] : c \in waiting},
                          !.budget.cancels = @ - 1]
    IN  SetLoading(SetMessages(st1, CancelMessages(st.messages)), FALSE)

-----------------------------------------------------------------------------
(* Sessions: handleNewSession, handleSessionSwitch, the auto-save effect. *)
(* The server's store is the sequence of the sessions' saved messages;    *)
(* a session's id is its position.                                        *)

\* every action of a loaded session is marked executed
LoadedStatuses(msgs) ==
    [k \in UNION {{<<m, i>> : i \in 0..(Len(msgs[m + 1].acts) - 1)} :
                    m \in 0..(Len(msgs) - 1)} |-> "executed"]

\* handleNewSession after createSession answered
NewSessionCreated(st, op) ==
    LET newId == Len(st.store) + 1
        st1 == [st EXCEPT !.store = Append(@, <<>>), !.sessionId = newId,
                          !.sessionOps = @ \ {op},
                          !.actionStatuses = <<>>,
                          !.rendered.touched = @ \cup {"statuses"}]
    IN  SetPendingResults(SetMessages(st1, <<>>), <<>>)

\* handleSessionSwitch after getSession answered
SessionLoaded(st, op) ==
    LET session == st.store[op.target]
        st1 == [st EXCEPT !.sessionId = op.target,
                          !.sessionOps = @ \ {op},
                          !.actionStatuses = LoadedStatuses(session),
                          !.rendered.touched = @ \cup {"statuses"}]
    IN  SetPendingResults(SetMessages(st1, session), <<>>)

\* the auto-save effect; the save reaches the server at once
SaveEffect(st, seen) ==
    IF seen.sessionId # 0 /\ seen.messages # <<>>
    THEN [st EXCEPT !.store[seen.sessionId] = seen.messages]
    ELSE st

-----------------------------------------------------------------------------
(* The effects of a render, and the render.                               *)

SendResultsGuard(seen) ==
    /\ ~HasPendingActions(seen.messages, seen.actionStatuses)
    /\ seen.pendingResults # <<>>
    /\ ~seen.loading

\* observation made when sendResults starts: whether an action shown is
\* approved and not executed, or rejected and not notified (open)
NoteSend(st, seen) ==
    [st EXCEPT !.observed = @ \cup
                 {[what |-> "sendResults", status |-> "",
                   open |-> \E m \in 0..(Len(seen.messages) - 1) :
                               \/ HasStatus(seen.messages, seen.actionStatuses, m, "approved")
                               \/ HasStatus(seen.messages, seen.actionStatuses, m, "rejected"),
                   loading |-> seen.loading, running |-> st.executingActionsRef]}]

\* the sendResults effect up to its await of sendChat
SendResultsEffect(st, seen) ==
    IF ~SendResultsGuard(seen) THEN st
    ELSE LET feedbackMessage == Message(0, "user", "[Action Results]", 0,
                                        seen.pendingResults, <<>>, TRUE)
             newMessages == Append(seen.messages, feedbackMessage)
         IN  [SetMessages(SetPendingResults(SetLoading(NoteSend(st, seen), TRUE), <<>>),
                          newMessages)
                EXCEPT !.chats = @ \cup {Chat(st.nextId, "results", "chat", newMessages,
                                              0, 0, <<>>)},
                       !.nextId = @ + 1,
                       !.budget.calls = @ - 1]

RECURSIVE ApprovePending(_, _, _, _)
ApprovePending(st, seen, m, i) ==
    IF i >= Len(seen.messages[m + 1].acts) THEN st
    ELSE IF GetActionStatus(seen.actionStatuses, m, i) = "pending"
         THEN ApprovePending(HandleActionApprove(st, m, i), seen, m, i + 1)
    ELSE ApprovePending(st, seen, m, i + 1)

\* a variant that is content with one auto-approvable pending action
AllAutoApprovable_Some(seen, cur, m) ==
    LET actions == seen.messages[m + 1].acts
    IN  \E i \in 0..(Len(actions) - 1) :
            /\ GetActionStatus(seen.actionStatuses, m, i) = "pending"
            /\ IsActionAutoApproved(seen.autoApproved, seen.fileAutoApproved, cur,
                                    actions[i + 1])

\* the message has a pending action and all its pending actions are auto-approvable
AllAutoApprovable(seen, cur, m) ==
    LET actions == seen.messages[m + 1].acts
    IN  /\ \E i \in 0..(Len(actions) - 1) :
              GetActionStatus(seen.actionStatuses, m, i) = "pending"
        /\ \A i \in 0..(Len(actions) - 1) :
              \/ GetActionStatus(seen.actionStatuses, m, i) # "pending"
              \/ IsActionAutoApproved(seen.autoApproved, seen.fileAutoApproved, cur,
                                      actions[i + 1])

RECURSIVE AutoApproveLoop(_, _, _)
AutoApproveLoop(st, seen, m) ==
    IF m >= Len(seen.messages) THEN st
    ELSE IF AllAutoApprovable(seen, st.current, m)
         THEN AutoApproveLoop(ApprovePending(st, seen, m, 0), seen, m + 1)
    ELSE AutoApproveLoop(st, seen, m + 1)

\* a variant in which the effect still sees the loading flag of the render
\* before: the message list is shown to it ahead of the flag's reset
AutoApproveEffect_StaleLoading(st, seen, ref) ==
    IF seen.rendered.loading \/ ref THEN st ELSE AutoApproveLoop(st, seen, 0)

\* the auto-approve effect; ref is executingActionsRef.current when it runs
AutoApproveEffect(st, seen, ref) ==
    IF ~BatchGuard(seen, ref) THEN st ELSE AutoApproveLoop(st, seen, 0)

\* a state change is waiting to be rendered
Dirty(st) ==
    \/ st.rendered.touched # {}
    \/ st.rendered.loading # st.loading
    \/ st.rendered.sessionId # st.sessionId

\* React renders the component with the state `st` and runs, in the order of
\* their declaration, the effects whose dependencies changed.  executeBatch runs
\* on in microtasks after the effects; it is composed first here, which gives
\* the same state: sendResults fires only when the render saw no approved
\* action, and then executeBatch awaits nothing, and the auto-approve effect
\* writes statuses of messages executeBatch skips.
RenderEffects(st) ==
    LET was == st.rendered
        hp == HasPendingActions(st.messages, st.actionStatuses)
        dLoading == was.loading # st.loading
        dMessages == "messages" \in was.touched
        runBatch == dMessages \/ "statuses" \in was.touched \/ dLoading
        seen == st
        refThen == IF runBatch /\ BatchGuard(seen, st.executingActionsRef)
                   THEN BatchAwaits(seen.messages, seen.actionStatuses)
                   ELSE st.executingActionsRef
        Save(s) == IF dMessages \/ was.sessionId # st.sessionId
                   THEN SaveEffect(s, seen) ELSE s
        Batch(s) == IF runBatch THEN ExecuteBatchEffect(s, seen) ELSE s
        Send(s) == IF was.hasPending # hp \/ "results" \in was.touched \/ dLoading
                   THEN SendResultsEffect(s, seen) ELSE s
        Auto(s) == IF dMessages \/ "auto" \in was.touched \/ "fileAuto" \in was.touched
                   THEN AutoApproveEffect(s, seen, refThen) ELSE s
    IN  Auto(Send(Batch(Save(
            [st EXCEPT !.rendered = [touched |-> {}, loading |-> st.loading,
                                     sessionId |-> st.sessionId,
                                     hasPending |-> hp]]))))

-----------------------------------------------------------------------------
(* The panel as a state machine.                                          *)

\* the actions the panel shows, by the identity of their message
Shown(msgs) ==
    UNION {{<<msgs[m].id, i>> : i \in 0..(Len(msgs[m].acts) - 1)} : m \in 1..Len(msgs)}

\* the status the panel shows for the action i of the message with identity id
ShownStatus(msgs, sts, k) ==
    LET m == CHOOSE m \in 1..Len(msgs) : msgs[m].id = k[1]
    IN  GetActionStatus(sts, m - 1, k[2])

\* for every action shown so far, the status it was last shown with
NextTrail(st) ==
    [k \in DOMAIN trail \cup Shown(st.messages) |->
        IF k \in Shown(st.messages)
        THEN ShownStatus(st.messages, st.actionStatuses, k)
        ELSE trail[k]]

\* the step leaves the panel in state st
Commit(st) ==
    /\ current' = st.current
    /\ notebooks' = st.notebooks
    /\ nextCellId' = st.nextCellId
    /\ messages' = st.messages
    /\ loading' = st.loading
    /\ actionStatuses' = st.actionStatuses
    /\ pendingResults' = st.pendingResults
    /\ autoApproved' = st.autoApproved
    /\ fileAutoApproved' = st.fileAutoApproved
    /\ sessionId' = st.sessionId
    /\ executingActionsRef' = st.executingActionsRef
    /\ abortControllerRef' = st.abortControllerRef
    /\ chats' = st.chats
    /\ batch' = st.batch
    /\ sessionOps' = st.sessionOps
    /\ store' = st.store
    /\ rendered' = st.rendered
    /\ budget' = st.budget
    /\ nextId' = st.nextId
    /\ execCount' = st.execCount
    /\ lastTurn' = st.lastTurn
    /\ observed' = st.observed
    /\ trail' = NextTrail(st)
    /\ UNCHANGED <<engineCall, engineResult, autoResult, filters, filterEnabled, validated, applying>>

\* the action i of message m shows its card with the approve / reject buttons
CardPending(m, i) ==
    /\ m \in 0..(Len(messages) - 1)
    /\ i \in 0..(Len(messages[m + 1].acts) - 1)
    /\ (IsQueryAction(messages[m + 1].acts[i + 1]) \/ IsMutateAction(messages[m + 1].acts[i + 1]))
    /\ GetActionStatus(actionStatuses, m, i) = "pending"

\* the message m shows the bulk header
BulkShown(m) ==
    /\ m \in 0..(Len(messages) - 1)
    /\ Len(messages[m + 1].acts) > 1
    /\ HasStatus(messages, actionStatuses, m, "pending")

MessageIndices == 0..(Len(messages) - 1)
ActionIndices(m) == 0..(Len(messages[m + 1].acts) - 1)

\* React schedules a render when state is set; it runs before the next user
\* event or server answer is handled
Render ==
    /\ Dirty(Now)
    /\ LET st == RenderEffects(Now)
       IN  /\ st.budget.calls >= 0
           /\ Commit(st)

UserSends ==
    /\ ~Dirty(Now)
    /\ ~loading
    /\ ~HasPendingActions(messages, actionStatuses)
    /\ budget.sends > 0 /\ budget.calls > 0
    /\ Commit(HandleSendMessage(Now))

UserCancels ==
    /\ ~Dirty(Now)
    /\ loading
    /\ budget.cancels > 0
    /\ Commit(HandleCancelLoading(Now))

UserApproves ==
    /\ ~Dirty(Now)
    /\ \E m \in MessageIndices : \E i \in ActionIndices(m) :
          /\ CardPending(m, i)
          /\ Commit(HandleActionApprove(Now, m, i))

UserApprovesAlways ==
    /\ ~Dirty(Now)
    /\ \E m \in MessageIndices : \E i \in ActionIndices(m) :
          /\ CardPending(m, i)
          /\ Commit(HandleActionApproveAlways(Now, m, i, messages[m + 1].acts[i + 1]))

UserRejects ==
    /\ ~Dirty(Now)
    /\ \E m \in MessageIndices : \E i \in ActionIndices(m) :
          /\ CardPending(m, i)
          /\ Commit(HandleActionReject(Now, m, i))

UserAcceptsAll ==
    /\ ~Dirty(Now)
    /\ \E m \in MessageIndices :
          /\ BulkShown(m)
          /\ Commit(HandleAcceptAll(Now, m))

UserAcceptsAllAlways ==
    /\ ~Dirty(Now)
    /\ \E m \in MessageIndices :
          /\ BulkShown(m)
          /\ Commit(HandleAcceptAllAlways(Now, m))

UserRejectsAll ==
    /\ ~Dirty(Now)
    /\ \E m \in MessageIndices :
          /\ BulkShown(m)
          /\ Commit(HandleRejectAll(Now, m))

UserStartsNewSession ==
    /\ ~Dirty(Now)
    /\ budget.sessionOps > 0
    /\ Commit([Now EXCEPT !.sessionOps = @ \cup {[kind |-> "new", target |-> 0]},
                          !.budget.sessionOps = @ - 1])

UserSwitchesSession ==
    /\ ~Dirty(Now)
    /\ budget.sessionOps > 0
    /\ \E target \in 1..Len(store) :
          /\ target # sessionId
          /\ Commit([Now EXCEPT !.sessionOps = @ \cup {[kind |-> "switch", target |-> target]},
                                !.budget.sessionOps = @ - 1])

UserActivatesNotebook ==
    /\ ~Dirty(Now)
    /\ budget.nbSwitches > 0
    /\ \E p \in Paths \cup {"none"} :
          /\ p # current
          /\ Commit([Now EXCEPT !.current = p, !.budget.nbSwitches = @ - 1])

ChatReplies ==
    /\ ~Dirty(Now)
    /\ \E c \in chats : \E raw \in budget.replies :
        /\ c.phase = "chat"
        /\ LET st == ProcessLLMResponse(Now, c, raw)
           IN  /\ st.budget.calls >= 0
               /\ Commit(st)

ChatRequestFails ==
    /\ ~Dirty(Now)
    /\ \E c \in chats :
        /\ c.phase = "chat"
        /\ budget.failures > 0
        /\ Commit(ChatFails([Now EXCEPT !.budget.failures = @ - 1], c))

CreateSessionAnswers ==
    /\ ~Dirty(Now)
    /\ \E c \in chats :
        /\ c.phase \in {"session", "aborted"}
        /\ Commit(SessionCreated(Now, c, c.phase = "aborted"))

NewSessionAnswers ==
    /\ ~Dirty(Now)
    /\ \E op \in sessionOps :
        /\ op.kind = "new"
        /\ Commit(NewSessionCreated(Now, op))

SessionSwitchAnswers ==
    /\ ~Dirty(Now)
    /\ \E op \in sessionOps :
        /\ op.kind = "switch"
        /\ Commit(SessionLoaded(Now, op))

AsyncActionSettles ==
    /\ ~Dirty(Now)
    /\ batch.on
    /\ \E ok \in BOOLEAN :
          Commit(ActionSettled(Now, ok))

-----------------------------------------------------------------------------
(* The replies the model may give, and the notebooks that are open.       *)

Raw(text, decodable, says, actions) ==
    [text |-> text, decodable |-> decodable, says |-> says, actions |-> actions]

Src_a == <<97>>
Src_b == <<98>>

\* text that is not JSON
Garbage1 == Raw(1, FALSE, <<>>, <<>>)
Garbage2 == Raw(2, FALSE, <<>>, <<>>)
\* JSON with an action of a type the schema does not know
Misspelt == Raw(3, TRUE, <<"content">>, <<[type |-> "replaceCell"]>>)
\* JSON with a message and no action
Plain == Raw(4, TRUE, <<"content">>, <<>>)
\* one read action
Reads == Raw(5, TRUE, <<>>, <<[type |-> "getCells", query |-> [start |-> 0]]>>)
\* an update of cell 0 as the model saw it, then a run of it
UpdatesAndRuns ==
    Raw(6, TRUE, <<"content">>,
        <<[type |-> "updateCell", query |-> [start |-> 0], source |-> Src_b,
           hash |-> ComputeCellHash("code", Src_a)],
          [type |-> "runCell", query |-> [start |-> 0]]>>)
\* a run, then a read of another notebook file
RunsAndReadsFile ==
    Raw(7, TRUE, <<>>,
        <<[type |-> "runCell", query |-> [start |-> 0]],
          [type |-> "getTocFromFile", path |-> "p.ipynb"]>>)

\* the help action alone
AsksHelp == Raw(8, TRUE, <<"content">>, <<[type |-> "listHelp"]>>)

PanelReplies == {Plain, Reads, UpdatesAndRuns}
SessionReplies == {Reads, RunsAndReadsFile}
TurnReplies == {Garbage1, Garbage2, Misspelt, Plain, Reads, AsksHelp}

OpenNotebooks ==
    [p \in Paths |->
        IF p = "X"
        THEN [cells |-> <<[id |-> 1, type |-> "code", source |-> Src_a]>>, active |-> 0]
        ELSE [cells |-> <<>>, active |-> -1]]

NoGrants == [p \in Paths |-> {}]
NoFileGrants == [p \in FilePaths \cup {""} |-> {}]

NoCall == [op |-> "none"]

\* the notebook tracker with notebook X active
TrackerInit ==
    /\ current = "X"
    /\ notebooks = OpenNotebooks
    /\ nextCellId = 2
    /\ engineCall = NoCall
    /\ engineResult = <<>>

\* the panel as mounted: no message, no session, nothing in flight
PanelInit(b) ==
    /\ messages = <<>>
    /\ loading = FALSE
    /\ actionStatuses = <<>>
    /\ pendingResults = <<>>
    /\ autoApproved = NoGrants
    /\ fileAutoApproved = NoFileGrants
    /\ sessionId = 0
    /\ executingActionsRef = FALSE
    /\ abortControllerRef = 0
    /\ chats = {}
    /\ batch = NoBatch
    /\ sessionOps = {}
    /\ store = <<>>
    /\ rendered = [touched |-> {}, loading |-> FALSE, sessionId |-> 0, hasPending |-> FALSE]
    /\ budget = b
    /\ nextId = 1
    /\ execCount = <<>>
    /\ trail = <<>>
    /\ lastTurn = NoTurn
    /\ observed = {}
    /\ autoResult = NoCall
    /\ filters = <<>>
    /\ filterEnabled = TRUE
    /\ validated = NoCall
    /\ applying = {}

NoBudget ==
    [sends |-> 0, calls |-> 0, cancels |-> 0, failures |-> 0, sessionOps |-> 0,
     nbSwitches |-> 0, replies |-> {}]

Init ==
    /\ TrackerInit
    /\ PanelInit([sends |-> MaxSends, calls |-> MaxCalls, cancels |-> MaxCancels,
                  failures |-> MaxFailures, sessionOps |-> 0,
                  nbSwitches |-> MaxNbSwitches, replies |-> PanelReplies])

Next ==
    \/ Render
    \/ UserSends
    \/ UserCancels
    \/ UserApproves
    \/ UserApprovesAlways
    \/ UserRejects
    \/ UserAcceptsAll
    \/ UserAcceptsAllAlways
    \/ UserRejectsAll
    \/ UserActivatesNotebook
    \/ ChatReplies
    \/ ChatRequestFails
    \/ CreateSessionAnswers
    \/ AsyncActionSettles

Spec == Init /\ [][Next]_vars

\* The panel with the session menu in use
InitSessions ==
    /\ TrackerInit
    /\ PanelInit([sends |-> MaxSessionSends, calls |-> MaxSessionCalls, cancels |-> 0,
                  failures |-> 0, sessionOps |-> MaxSessionOps,
                  nbSwitches |-> 0, replies |-> SessionReplies])

NextSessions ==
    \/ Render
    \/ UserSends
    \/ UserApproves
    \/ UserRejects
    \/ UserAcceptsAll
    \/ UserStartsNewSession
    \/ UserSwitchesSession
    \/ ChatReplies
    \/ CreateSessionAnswers
    \/ NewSessionAnswers
    \/ SessionSwitchAnswers
    \/ AsyncActionSettles

SpecSessions == InitSessions /\ [][NextSessions]_vars

-----------------------------------------------------------------------------
(* A panel opened on a server that holds a session of an earlier run: the *)
(* panel starts with an empty new session and the session menu lists the  *)
(* stored one.                                                            *)

\* the identities of the stored messages
StoredIds == {1, 2}

\* the stored session: a user turn and a reply with one action
StoredSession ==
    <<Message(1, "user", "text", 0, <<>>, <<>>, FALSE),
      Message(2, "assistant", "content", Reads.text, <<>>, Reads.actions, FALSE)>>

ReloadReplies == {Plain, Reads}

InitReload ==
    /\ TrackerInit
    /\ messages = <<>>
    /\ loading = FALSE
    /\ actionStatuses = <<>>
    /\ pendingResults = <<>>
    /\ autoApproved = NoGrants
    /\ fileAutoApproved = NoFileGrants
    /\ sessionId = 0
    /\ executingActionsRef = FALSE
    /\ abortControllerRef = 0
    /\ chats = {}
    /\ batch = NoBatch
    /\ sessionOps = {}
    /\ store = <<StoredSession>>
    /\ rendered = [touched |-> {}, loading |-> FALSE, sessionId |-> 0, hasPending |-> FALSE]
    /\ budget = [sends |-> MaxSessionSends, calls |-> MaxSessionCalls, cancels |-> 0,
                 failures |-> 0, sessionOps |-> MaxSessionOps, nbSwitches |-> 0,
                 replies |-> ReloadReplies]
    /\ nextId = 3
    /\ execCount = <<>>
    /\ trail = <<>>
    /\ lastTurn = NoTurn
    /\ observed = {}
    /\ autoResult = NoCall
    /\ filters = <<>>
    /\ filterEnabled = TRUE
    /\ validated = NoCall
    /\ applying = {}

NextReload ==
    \/ Render
    \/ UserSends
    \/ UserApproves
    \/ UserApprovesAlways
    \/ UserStartsNewSession
    \/ UserSwitchesSession
    \/ ChatReplies
    \/ CreateSessionAnswers
    \/ NewSessionAnswers
    \/ SessionSwitchAnswers

SpecReload == InitReload /\ [][NextReload]_vars

-----------------------------------------------------------------------------
(* The privacy filter: Filter, applyFilters, and the results it is        *)
(* applied to.  A text is a sequence of tokens, a token a sequence of     *)
(* characters; a rule's pattern is the set of tokens its regular          *)
(* expression matches, its label a sequence of characters.                *)

\* Most tokens in a result
MaxTextLen == 3
\* Most results produced in a run
MaxResults == 2
\* Most clicks on the filter checkbox in a run
MaxToggles == 2

\* the raw values a result may hold; no rule matches <<"x">>
Values == {<<"a">>, <<"b">>, <<"x">>}

Texts == UNION {[1..n -> Values] : n \in 0..MaxTextLen}

\* IFilter
IpRule == [pattern |-> {<<"a">>, <<"b">>}, label |-> <<"P", "#">>]
KeyRule == [pattern |-> {<<"b">>}, label |-> <<"K">>]

\* the rule lists the server may hand out
FilterLists == {<<>>, <<IpRule>>, <<IpRule, KeyRule>>, <<KeyRule, IpRule>>}

\* Filter.formatLabel: String.replace puts the number in place of the first '#'
FormatLabel(label, num) ==
    IF \E i \in 1..Len(label) : label[i] = "#"
    THEN LET first == CHOOSE i \in 1..Len(label) :
                         label[i] = "#" /\ \A j \in 1..(i - 1) : label[j] # "#"
         IN  [label EXCEPT ![first] = ToString(num)]
    ELSE label

\* a variant of the replace callback that never looks a match up
RECURSIVE Replace_NoLookup(_, _, _, _, _)
Replace_NoLookup(text, p, rule, valueMap, counter) ==
    IF p > Len(text) THEN <<>>
    ELSE IF text[p] \notin rule.pattern
    THEN <<text[p]>> \o Replace_NoLookup(text, p + 1, rule, valueMap, counter)
    ELSE <<FormatLabel(rule.label, counter + 1)>>
            \o Replace_NoLookup(text, p + 1, rule, valueMap, counter + 1)

\* Filter.replace from the match at position p on, with the instance's
\* valueMap and counter
RECURSIVE Replace(_, _, _, _, _)
Replace(text, p, rule, valueMap, counter) ==
    IF p > Len(text) THEN <<>>
    ELSE IF text[p] \notin rule.pattern
    THEN <<text[p]>> \o Replace(text, p + 1, rule, valueMap, counter)
    ELSE IF text[p] \in DOMAIN valueMap
    THEN <<FormatLabel(rule.label, valueMap[text[p]])>>
            \o Replace(text, p + 1, rule, valueMap, counter)
    ELSE <<FormatLabel(rule.label, counter + 1)>>
            \o Replace(text, p + 1, rule, valueMap @@ (text[p] :> counter + 1), counter + 1)

\* applyFilters: a new Filter per rule, applied in turn
RECURSIVE ApplyFilters(_, _)
ApplyFilters(text, fs) ==
    IF fs = <<>> THEN text
    ELSE ApplyFilters(Replace(text, 1, Head(fs), <<>>, 0), Tail(fs))

\* the end of executeQueryAction
FilterResult(result, fs, enabled) ==
    IF enabled /\ Len(fs) > 0 THEN ApplyFilters(result, fs) ELSE result

\* the checkbox: onFilterToggle = setFilterEnabled
UserTogglesFilter ==
    /\ budget.toggles > 0
    /\ filterEnabled' = ~filterEnabled
    /\ budget' = [budget EXCEPT !.toggles = @ - 1]
    /\ UNCHANGED <<engineVars, messages, loading, actionStatuses, pendingResults,
                   autoApproved, fileAutoApproved, sessionId, executingActionsRef,
                   abortControllerRef, chats, batch, sessionOps, store, rendered, nextId,
                   execCount, trail, lastTurn, observed, autoResult, filters, validated, applying>>

\* the executeBatch effect of a render: the batch and the functions it calls
\* keep the filterEnabled and filters of that render
BatchStarts ==
    /\ ~loading /\ ~executingActionsRef
    /\ budget.results > 0
    /\ executingActionsRef' = TRUE
    /\ batch' = [on |-> TRUE, msgs |-> <<>>, sts |-> <<>>, m |-> 0, i |-> 0,
                 filterEnabled |-> filterEnabled, filters |-> filters]
    /\ UNCHANGED <<engineVars, messages, loading, actionStatuses, pendingResults,
                   autoApproved, fileAutoApproved, sessionId,
                   abortControllerRef, chats, sessionOps, store, rendered, budget, nextId,
                   execCount, trail, lastTurn, observed, autoResult, filters, filterEnabled,
                   validated, applying>>

\* executeApprovedAction, called by the batch for a query whose unfiltered
\* result is raw: the text joins the queue, filtered as the batch's render
\* had it (raw, and the checkbox as it stands, are kept for the properties)
ResultIsQueued ==
    /\ batch.on
    /\ budget.results > 0
    /\ \E raw \in Texts :
          pendingResults' = Append(pendingResults,
                                   [raw |-> raw, filters |-> batch.filters,
                                    enabled |-> batch.filterEnabled,
                                    checked |-> filterEnabled,
                                    text |-> FilterResult(raw, batch.filters,
                                                          batch.filterEnabled)])
    /\ budget' = [budget EXCEPT !.results = @ - 1]
    /\ UNCHANGED <<engineVars, messages, loading, actionStatuses,
                   autoApproved, fileAutoApproved, sessionId, executingActionsRef,
                   abortControllerRef, chats, batch, sessionOps, store, rendered, nextId,
                   execCount, trail, lastTurn, observed, autoResult, filters, filterEnabled,
                   validated, applying>>

\* the batch is through its actions: finally
BatchEnds ==
    /\ batch.on
    /\ executingActionsRef' = FALSE
    /\ batch' = NoBatch
    /\ UNCHANGED <<engineVars, messages, loading, actionStatuses, pendingResults,
                   autoApproved, fileAutoApproved, sessionId,
                   abortControllerRef, chats, sessionOps, store, rendered, budget, nextId,
                   execCount, trail, lastTurn, observed, autoResult, filters, filterEnabled,
                   validated, applying>>

\* the sendResults effect up to its await, once no action is left approved:
\* the queue becomes one feedback turn
ResultsAreSent ==
    /\ pendingResults # <<>>
    /\ ~loading
    /\ ~batch.on
    /\ loading' = TRUE
    /\ messages' = Append(messages, Message(0, "user", "[Action Results]", 0,
                                            pendingResults, <<>>, TRUE))
    /\ pendingResults' = <<>>
    /\ UNCHANGED <<engineVars, actionStatuses,
                   autoApproved, fileAutoApproved, sessionId, executingActionsRef,
                   abortControllerRef, chats, batch, sessionOps, store, rendered, budget,
                   nextId, execCount, trail, lastTurn, observed, autoResult, filters,
                   filterEnabled, validated, applying>>

\* the feedback call is over: the `finally` of sendResults
FeedbackCallEnds ==
    /\ loading
    /\ loading' = FALSE
    /\ UNCHANGED <<engineVars, messages, actionStatuses, pendingResults,
                   autoApproved, fileAutoApproved, sessionId, executingActionsRef,
                   abortControllerRef, chats, batch, sessionOps, store, rendered, budget,
                   nextId, execCount, trail, lastTurn, observed, autoResult, filters,
                   filterEnabled, validated, applying>>

InitFilter ==
    /\ TrackerInit
    /\ messages = <<>>
    /\ loading = FALSE
    /\ actionStatuses = <<>>
    /\ pendingResults = <<>>
    /\ autoApproved = NoGrants
    /\ fileAutoApproved = NoFileGrants
    /\ sessionId = 0
    /\ executingActionsRef = FALSE
    /\ abortControllerRef = 0
    /\ chats = {}
    /\ batch = NoBatch
    /\ sessionOps = {}
    /\ store = <<>>
    /\ rendered = [touched |-> {}, loading |-> FALSE, sessionId |-> 0, hasPending |-> FALSE]
    /\ budget = [results |-> MaxResults, toggles |-> MaxToggles]
    /\ nextId = 1
    /\ execCount = <<>>
    /\ trail = <<>>
    /\ lastTurn = NoTurn
    /\ observed = {}
    /\ autoResult = NoCall
    /\ filters \in FilterLists
    /\ filterEnabled = TRUE
    /\ validated = NoCall
    /\ applying = {}

NextFilter ==
    \/ UserTogglesFilter
    \/ BatchStarts
    \/ ResultIsQueued
    \/ BatchEnds
    \/ ResultsAreSent
    \/ FeedbackCallEnds

SpecFilter == InitFilter /\ [][NextFilter]_vars

-----------------------------------------------------------------------------
(* validateActions on its own: one action of a known type, with any of    *)
(* its fields present, absent or misspelt.                                *)

ValidatedTypes == {"updateCell", "deleteCell", "getCells"}

\* the keys an action may carry beside `type`
ValidatedKeys == {"query", "source", "hash", "count", "qeury", "Query", "sourc"}

ValidatedActions ==
    {[k \in keys \cup {"type"} |-> IF k = "type" THEN t ELSE 0] :
        t \in ValidatedTypes, keys \in SUBSET ValidatedKeys}

ActionsAreValidated ==
    /\ \E action \in ValidatedActions :
          validated' = [op |-> "validateActions", actions |-> <<action>>,
                        value |-> ValidateActions(<<action>>)]
    /\ UNCHANGED <<engineVars, messages, loading, actionStatuses, pendingResults,
                   autoApproved, fileAutoApproved, sessionId, executingActionsRef,
                   abortControllerRef, chats, batch, sessionOps, store, rendered, budget,
                   nextId, execCount, trail, lastTurn, observed, autoResult, filters,
                   filterEnabled, applying>>

InitValidate ==
    /\ TrackerInit
    /\ PanelInit(NoBudget)

NextValidate == ActionsAreValidated

SpecValidate == InitValidate /\ [][NextValidate]_vars

-----------------------------------------------------------------------------
(* One turn and its retries: the panel with every kind of reply, which    *)
(* the user may cancel.                                                   *)

InitTurn ==
    /\ TrackerInit
    /\ PanelInit([sends |-> 1, calls |-> MaxTurnCalls, cancels |-> MaxCancels,
                  failures |-> 0, sessionOps |-> 0, nbSwitches |-> 0,
                  replies |-> TurnReplies])

NextTurn ==
    \/ Render
    \/ UserSends
    \/ UserCancels
    \/ UserApproves
    \/ ChatReplies
    \/ CreateSessionAnswers

SpecTurn == InitTurn /\ [][NextTurn]_vars

-----------------------------------------------------------------------------
(* ContextEngine on its own: a notebook of up to MaxCells cells, and      *)
(* calls with queries, sources and hashes of every kind.                  *)

CellTypes == {"code", "markdown"}
Sources == {Src_a, Src_b}
CellLists ==
    UNION {[1..n -> [type : CellTypes, source : Sources]] : n \in 0..MaxCells}

\* hashes a caller may hold: those of the cells it may have read, and none
Hashes == {ComputeCellHash(t, src) : t \in CellTypes, src \in Sources} \cup {<<>>}

Queries ==
    {[start |-> 0], [start |-> 1], [active |-> TRUE], [contains |-> Src_b], [id |-> 2],
     [index |-> 0]}

InitEngine ==
    /\ current = "X"
    /\ \E cs \in CellLists : \E a \in 0..MaxCells :
          /\ a < Len(cs) \/ (a = 0 /\ cs = <<>>)
          /\ notebooks =
                [p \in Paths |->
                    IF p = "X"
                    THEN [cells |-> [k \in 1..Len(cs) |->
                                        [id |-> k, type |-> cs[k].type,
                                         source |-> cs[k].source]],
                          active |-> IF cs = <<>> THEN -1 ELSE a]
                    ELSE [cells |-> <<>>, active |-> -1]]
    /\ nextCellId = MaxCells + 1
    /\ engineCall = NoCall
    /\ engineResult = <<>>
    /\ PanelInit(NoBudget)

\* the engine is called; the call and its outcome are kept for inspection
EngineStep(op, query, source, hash, r) ==
    /\ engineCall' = [op |-> op, query |-> query, source |-> source, hash |-> hash,
                      before |-> notebooks[current]]
    /\ engineResult' = [ok |-> r.ok, err |-> r.err, val |-> r.val]
    /\ notebooks' = [notebooks EXCEPT ![current] = r.nb]
    /\ UNCHANGED <<current, nextCellId>>
    /\ UNCHANGED panelVars

EngineUpdatesCell ==
    \E query \in Queries : \E source \in Sources : \E hash \in Hashes :
        EngineStep("updateCell", query, source, hash,
                   UpdateCell(notebooks[current], query, source, hash))

EngineDeletesCell ==
    \E query \in Queries : \E hash \in Hashes :
        EngineStep("deleteCell", query, <<>>, hash,
                   DeleteCell(notebooks[current], query, hash))

NextEngine ==
    \/ EngineUpdatesCell
    \/ EngineDeletesCell

SpecEngine == InitEngine /\ [][NextEngine]_vars

-----------------------------------------------------------------------------
(* Auto-approval on its own: grants are recorded, the user moves between  *)
(* notebooks, and isActionAutoApproved is asked about an action.          *)

GrantTypes == {"getToc", "getSection", "getCells", "getOutput", "runCell"}

AskedActions ==
    {[type |-> "getToc"],
     [type |-> "getSection", query |-> [start |-> 0]],
     [type |-> "getCells", query |-> [start |-> 0]],
     [type |-> "getOutput", query |-> [start |-> 0]],
     [type |-> "runCell", query |-> [start |-> 0]]}

InitAuto ==
    /\ TrackerInit
    /\ PanelInit(NoBudget)

\* the addAutoApproval of an "always" approval of an action of type t
GrantIsRecorded ==
    \E action \in AskedActions :
        /\ autoApproved' = AddAutoApproval(Now, action).autoApproved
        /\ autoApproved' # autoApproved
        /\ UNCHANGED <<fileAutoApproved, current, autoResult>>

NotebookIsActivated ==
    \E p \in Paths \cup {"none"} :
        /\ p # current
        /\ current' = p
        /\ UNCHANGED <<autoApproved, fileAutoApproved, autoResult>>

AutoApprovalIsAsked ==
    \E action \in AskedActions :
        /\ autoResult' =
              [op |-> "isActionAutoApproved", action |-> action, cur |-> current,
               grants |-> IF current = "none" THEN {} ELSE autoApproved[current],
               value |-> IsActionAutoApproved(autoApproved, fileAutoApproved, current,
                                              action)]
        /\ UNCHANGED <<autoApproved, fileAutoApproved, current>>

\* what none of the three steps touches
autoFrame ==
    <<notebooks, nextCellId, engineCall, engineResult, messages, loading, actionStatuses,
      pendingResults, sessionId, executingActionsRef, abortControllerRef, chats, batch,
      sessionOps, store, rendered, budget, nextId, execCount, trail, lastTurn,
      observed, filters, filterEnabled, validated, applying>>

NextAuto ==
    \/ GrantIsRecorded /\ UNCHANGED autoFrame
    \/ NotebookIsActivated /\ UNCHANGED autoFrame
    \/ AutoApprovalIsAsked /\ UNCHANGED autoFrame

SpecAuto == InitAuto /\ [][NextAuto]_vars

\* The same for the write actions: grants of the four mutate types and of the
\* finest read type, and isActionAutoApproved asked about each of them.
MutateAskedActions ==
    {[type |-> "insertCell", position |-> "end", cellType |-> "code", source |-> Src_a],
     [type |-> "updateCell", query |-> [start |-> 0], source |-> Src_b,
      hash |-> ComputeCellHash("code", Src_a)],
     [type |-> "deleteCell", query |-> [start |-> 0], hash |-> ComputeCellHash("code", Src_a)],
     [type |-> "runCell", query |-> [start |-> 0]],
     [type |-> "getOutput", query |-> [start |-> 0]]}

MutateGrantIsRecorded ==
    \E action \in MutateAskedActions :
        /\ autoApproved' = AddAutoApproval(Now, action).autoApproved
        /\ autoApproved' # autoApproved
        /\ UNCHANGED <<fileAutoApproved, current, autoResult>>

MutateAutoApprovalIsAsked ==
    \E action \in MutateAskedActions :
        /\ autoResult' =
              [op |-> "isActionAutoApproved", action |-> action, cur |-> current,
               grants |-> IF current = "none" THEN {} ELSE autoApproved[current],
               value |-> IsActionAutoApproved(autoApproved, fileAutoApproved, current,
                                              action)]
        /\ UNCHANGED <<autoApproved, fileAutoApproved, current>>

NextAutoMutate ==
    \/ MutateGrantIsRecorded /\ UNCHANGED autoFrame
    \/ NotebookIsActivated /\ UNCHANGED autoFrame
    \/ MutateAutoApprovalIsAsked /\ UNCHANGED autoFrame

SpecAutoMutate == InitAuto /\ [][NextAutoMutate]_vars

-----------------------------------------------------------------------------
(* Properties of the hash check (ContextEngine.updateCell, deleteCell)    *)

\* the cell index the last engine call resolved its query to
ResolvedIndex == FindCellIndex(engineCall.before, engineCall.query)

\* the last engine call was an updateCell or deleteCell that resolved a cell and
\* carried a hash other than that of the cell's type and source
StaleHashCall ==
    /\ engineCall.op \in {"updateCell", "deleteCell"}
    /\ ResolvedIndex >= 0
    /\ engineCall.hash # ComputeCellHash(engineCall.before.cells[ResolvedIndex + 1].type,
                                         engineCall.before.cells[ResolvedIndex + 1].source)

\* C7: updateCell and deleteCell called with a hash that differs from
\* computeCellHash(type, source) of the resolved cell throw the hash-mismatch
\* error and leave the notebook as it was: the same number of cells, the same
\* source in every cell, the same active cell index.
C7_StaleHashRejected ==
    StaleHashCall =>
        /\ ~engineResult.ok
        /\ engineResult.err = "HashMismatch"
        /\ Len(notebooks[current].cells) = Len(engineCall.before.cells)
        /\ \A k \in 1..Len(engineCall.before.cells) :
              notebooks[current].cells[k].source = engineCall.before.cells[k].source
        /\ notebooks[current].active = engineCall.before.active

\* an updateCell with a stale hash on a cell that is not the active one
C7_Witness ==
    /\ StaleHashCall
    /\ engineCall.op = "updateCell"
    /\ engineCall.source # engineCall.before.cells[ResolvedIndex + 1].source
    /\ ResolvedIndex # engineCall.before.active
    /\ engineResult.err = "HashMismatch"

-----------------------------------------------------------------------------
(* Properties of the read hierarchy (isActionAutoApproved)                *)

\* getOutput > getCells > getSection > getToc
Coarseness(type) ==
    CASE type = "getOutput" -> 4
      [] type = "getCells" -> 3
      [] type = "getSection" -> 2
      [] type = "getToc" -> 1

ReadTypes == {"getToc", "getSection", "getCells", "getOutput"}

\* C10: for a read action of type t on the active notebook X,
\* isActionAutoApproved is true exactly when the grants of X hold t or a read
\* type strictly coarser than t in getOutput > getCells > getSection > getToc.
C10_ReadHierarchy ==
    (autoResult.op = "isActionAutoApproved"
        /\ autoResult.action.type \in ReadTypes
        /\ autoResult.cur # "none")
    => (autoResult.value <=>
            \E g \in autoResult.grants \cap ReadTypes :
                Coarseness(g) >= Coarseness(autoResult.action.type))

\* a getCells action approved on the strength of a getOutput grant alone
C10_Witness ==
    /\ autoResult.op = "isActionAutoApproved"
    /\ autoResult.cur # "none"
    /\ autoResult.action.type = "getCells"
    /\ autoResult.grants = {"getOutput"}
    /\ autoResult.value

-----------------------------------------------------------------------------
(* Properties of the retry loop (processLLMResponse)                      *)

\* the last finished turn got undecodable text on its first three calls
ThreeUndecodable ==
    /\ Len(lastTurn.raws) >= 3
    /\ \A k \in 1..3 : ~lastTurn.raws[k].decodable

\* C8: when the model returns undecodable text on the first call of a turn and
\* on both retries, the turn ends with one assistant message whose content is
\* the third raw reply verbatim and which has no actions, and no fourth model
\* call is made for the turn.
C8_ThirdRawShown ==
    /\ ThreeUndecodable =>
          /\ lastTurn.calls = 3
          /\ Len(lastTurn.result) = Len(lastTurn.base) + 1
          /\ LET final == lastTurn.result[Len(lastTurn.result)]
             IN  /\ final.role = "assistant"
                 /\ final.kind = "raw"
                 /\ final.text = lastTurn.raws[3].text
                 /\ final.acts = <<>>
    /\ \A c \in chats : ~(Len(c.raws) >= 3 /\ \A k \in 1..3 : ~c.raws[k].decodable)

\* a turn with three undecodable replies, the third unlike the first
C8_Witness ==
    /\ ThreeUndecodable
    /\ lastTurn.raws[3].text # lastTurn.raws[1].text
    /\ messages = lastTurn.result

\* C9: in one turn processLLMResponse makes at most 2 further sendChat calls,
\* whatever the mix of decode and validation failures; retryCount never
\* exceeds 2; the turn returns the history it was last given, extended by
\* exactly one final assistant message.
C9_RetriesBounded ==
    /\ \A c \in chats : c.retry <= 2 /\ Len(c.raws) <= 2
    /\ lastTurn.calls <= 3
    /\ lastTurn.retryCount <= 2
    /\ lastTurn.calls > 0 =>
          /\ Len(lastTurn.result) = Len(lastTurn.base) + 1
          /\ SubSeq(lastTurn.result, 1, Len(lastTurn.base)) = lastTurn.base
          /\ lastTurn.result[Len(lastTurn.result)].role = "assistant"

\* a turn of three calls: a decode failure, a validation failure, a good reply
C9_Witness ==
    /\ lastTurn.calls = 3
    /\ ~lastTurn.raws[1].decodable
    /\ lastTurn.raws[2].decodable /\ ~ValidateActions(lastTurn.raws[2].actions).valid
    /\ lastTurn.raws[3].decodable /\ ValidateActions(lastTurn.raws[3].actions).valid
    /\ lastTurn.raws[3].actions # <<>>

-----------------------------------------------------------------------------
(* Properties of the approval gate                                        *)

Executions == {e \in observed : e.what = "execute"}

\* the entries of the status map that become `approved` in the step
NewlyApproved ==
    {k \in DOMAIN actionStatuses' :
        actionStatuses'[k] = "approved" /\ HeldStatus(actionStatuses, k[1], k[2]) # "approved"}

\* the step is a user approve operation, or a render whose auto-approve effect
\* approves only actions for which isActionAutoApproved holds
ApprovalStep ==
    \/ UserApproves
    \/ UserApprovesAlways
    \/ UserAcceptsAll
    \/ UserAcceptsAllAlways
    \/ /\ Render
       /\ \A k \in NewlyApproved :
             /\ k[1] < Len(messages)
             /\ k[2] < Len(messages[k[1] + 1].acts)
             /\ IsActionAutoApproved(autoApproved, fileAutoApproved, current,
                                     messages[k[1] + 1].acts[k[2] + 1])

\* C1: no action is executed unless its status at (message index, action
\* index) is `approved` at that moment, and a status becomes `approved` only
\* through handleActionApprove, handleActionApproveAlways, handleAcceptAll,
\* handleAcceptAllAlways, or through the auto-approve effect in a state where
\* isActionAutoApproved holds for the action.
C1_ApprovalGate ==
    /\ [](\A e \in Executions : e.status = "approved")
    /\ [][NewlyApproved # {} => ApprovalStep]_vars

-----------------------------------------------------------------------------
(* Properties of the status machine                                       *)

\* pending -> approved -> executed, pending -> rejected -> notified
StatusMoves ==
    {<<"pending", "approved">>, <<"approved", "executed">>,
     <<"pending", "rejected">>, <<"rejected", "notified">>}

\* the status an action was last shown with; a new action has shown none and
\* counts as pending
LastShown(k) == IF k \in DOMAIN trail THEN trail[k] ELSE "pending"

\* C2: across user operations, model replies, cancellations, new sessions and
\* session switches, the status shown for an action only moves along
\* pending -> approved -> executed or pending -> rejected -> notified: an action
\* that has left `pending` is never shown `pending` again, and an `executed` or
\* `notified` action never changes status.
C2_OneWay ==
    [][\A k \in DOMAIN trail' :
          \/ trail'[k] = LastShown(k)
          \/ <<LastShown(k), trail'[k]>> \in StatusMoves]_vars

-----------------------------------------------------------------------------
(* Properties of the batch                                                *)

\* entries queued for the action k that are not rejection notices
QueuedFor(k) ==
    {n \in 1..Len(pendingResults) :
        pendingResults[n].src = k /\ pendingResults[n].outcome # "rejected"}

\* C3: each action is executed at most once and puts at most one entry in
\* pendingResults, however status updates, re-runs of the batch effect and the
\* completion of asynchronous actions interleave; the batch effect starts no
\* executeBatch while another is running or while loading is true.
C3_AtMostOnce ==
    /\ \A k \in DOMAIN execCount : execCount[k] <= 1 /\ Cardinality(QueuedFor(k)) <= 1
    /\ \A e \in observed : e.what = "executeBatch" => ~e.running /\ ~e.loading

\* an asynchronous action has completed and the batch has gone on to execute
\* the next action of the message
C3_Witness ==
    /\ \E k \in DOMAIN execCount : k[2] = 1 /\ execCount[k] = 1
                                   /\ <<k[1], 0>> \in DOMAIN execCount
    /\ \E n \in 1..Len(pendingResults) : pendingResults[n].type = "runCell"

\* the messages shown that have an action still pending
Undecided ==
    {m \in 0..(Len(messages) - 1) :
        Len(messages[m + 1].acts) > 0 /\ ~AllDecided(messages, actionStatuses, m)}

\* C4: executeApprovedAction runs for an action of message m only in a state
\* where no action of m is pending; while an action of m is pending, every
\* approved action of m stays approved and unexecuted, and no rejection notice
\* is queued for m.
C4_AllDecidedFirst ==
    /\ \A e \in Executions : ~e.open
    /\ \A m \in Undecided :
          /\ \A i \in 0..(Len(messages[m + 1].acts) - 1) :
                /\ GetActionStatus(actionStatuses, m, i) \in {"pending", "approved", "rejected"}
                /\ <<messages[m + 1].id, i>> \notin DOMAIN execCount
          /\ \A n \in 1..Len(pendingResults) : pendingResults[n].src[1] # messages[m + 1].id

\* one action of a message is approved, another rejected, a third pending
C4_Witness ==
    \E m \in Undecided :
        /\ HasStatus(messages, actionStatuses, m, "approved")
        /\ ~Dirty(Now)
        /\ ~executingActionsRef

-----------------------------------------------------------------------------
(* Properties of the feedback turn                                        *)

\* the positions of the `[Action Results]` turns in a message list
FeedbackTurns(msgs) == {n \in 1..Len(msgs) : msgs[n].kind = "[Action Results]"}

\* the turn at position n of msgs reports on the action-bearing message M: one
\* entry per action of M, in the order of the actions
ReportsOn(msgs, n, M) ==
    /\ Len(msgs[n].results) = Len(M.acts)
    /\ \A i \in 1..Len(M.acts) :
          /\ msgs[n].results[i].src = <<M.id, i - 1>>
          /\ msgs[n].results[i].type \in {M.acts[i].type, "unknown"}

\* every feedback turn of msgs reports on one message before it, and no two
\* on the same message
WellReported(msgs) ==
    /\ \A n \in FeedbackTurns(msgs) :
          \E k \in 1..(n - 1) : Len(msgs[k].acts) >= 1 /\ ReportsOn(msgs, n, msgs[k])
    /\ \A n1, n2 \in FeedbackTurns(msgs) :
          (n1 # n2) => \A i \in 1..Len(msgs[n1].results) : \A j \in 1..Len(msgs[n2].results) :
                          msgs[n1].results[i].src[1] # msgs[n2].results[j].src[1]

\* C5: for every assistant message with n >= 1 actions, once all are decided
\* exactly one generated `[Action Results]` turn is sent for it, holding exactly
\* n entries, the i-th the outcome of the i-th action; no feedback turn is sent
\* while an action of the message is approved and not executed or rejected and
\* not notified.
C5_OneFeedbackTurn ==
    /\ WellReported(messages)
    /\ \A c \in chats : WellReported(c.base)
    /\ \A e \in observed : e.what = "sendResults" => ~e.open

-----------------------------------------------------------------------------
(* Properties of a batch in which an action throws                        *)

\* the entries the result queue q holds for the action i of the message id
EntriesFor(q, id, i) == {n \in 1..Len(q) : q[n].src = <<id, i>>}

\* executeBatch is about to run: the batch effect of the render that is due
\* starts it, or the asynchronous action it awaits is about to settle
BatchIsDue ==
    IF batch.on THEN ~Dirty(Now)
    ELSE /\ Dirty(Now)
         /\ ("messages" \in rendered.touched \/ "statuses" \in rendered.touched
                \/ rendered.loading # loading)
         /\ BatchGuard(Now, executingActionsRef)

\* the states executeBatch can leave when it runs from the present state
BatchOutcomes ==
    IF batch.on THEN {ActionSettled(Now, ok) : ok \in BOOLEAN}
    ELSE {ExecuteBatchEffect(Now, Now)}

\* the messages and statuses of the render the running executeBatch was created in
BatchMessages == IF batch.on THEN batch.msgs ELSE messages
BatchStatuses == IF batch.on THEN batch.sts ELSE actionStatuses

\* the actions the run takes the batch through: from the one whose result
\* arrives, or the first, up to the one it stops to await, or the end
Before(a, b) == a[1] < b[1] \/ (a[1] = b[1] /\ a[2] < b[2])
BatchFrom == IF batch.on THEN <<batch.m, batch.i>> ELSE <<0, 0>>
BatchUpTo(after) ==
    IF after.batch.on THEN <<after.batch.m, after.batch.i>> ELSE <<Len(BatchMessages), 0>>
Handled(after) ==
    {k \in UNION {{<<m, i>> : i \in 0..(Len(BatchMessages[m + 1].acts) - 1)} :
                    m \in {m \in 0..(Len(BatchMessages) - 1) :
                               Processable(BatchMessages, BatchStatuses, m)}} :
        ~Before(k, BatchFrom) /\ Before(k, BatchUpTo(after))}

\* C6: when the execution of an approved action throws, the action still
\* reaches `executed` with a result entry {type, error}, and every later
\* approved action of the batch is still executed and every later rejected
\* action still gets its `rejected: true` notice: whenever executeBatch runs,
\* it leaves every action it handles `executed` with one more entry in the
\* queue, a result or an error, if it saw it approved, and `notified` with one
\* more entry, a rejection, if it saw it rejected.
C6_ErrorsDoNotAbort ==
    BatchIsDue =>
        \A after \in BatchOutcomes : \A k \in Handled(after) :
            LET was == GetActionStatus(BatchStatuses, k[1], k[2])
                now == HeldStatus(after.actionStatuses, k[1], k[2])
                id == BatchMessages[k[1] + 1].id
                q == after.pendingResults
                old == EntriesFor(pendingResults, id, k[2])
                new == EntriesFor(q, id, k[2]) \ old
            IN  /\ was = "approved" =>
                      /\ now = "executed"
                      /\ Cardinality(new) = 1
                      /\ \A n \in new : q[n].outcome \in {"result", "error"}
                /\ was = "rejected" =>
                      /\ now = "notified"
                      /\ Cardinality(new) = 1
                      /\ \A n \in new : q[n].outcome = "rejected"
                /\ \A n \in new :
                      /\ q[n].type \in {BatchMessages[k[1] + 1].acts[k[2] + 1].type, "unknown"}
                      /\ q[n].outcome = "error" => q[n].detail # ""

\* a batch has ended in which the first action threw and the second was
\* executed all the same
C6_Witness ==
    /\ ~executingActionsRef
    /\ \E n \in 1..(Len(pendingResults) - 1) :
          /\ pendingResults[n].outcome = "error"
          /\ pendingResults[n].detail = "HashMismatch"
          /\ pendingResults[n + 1].src = <<pendingResults[n].src[1], pendingResults[n].src[2] + 1>>
          /\ pendingResults[n + 1].outcome = "result"
    /\ \A k \in DOMAIN actionStatuses : actionStatuses[k] = "executed"

-----------------------------------------------------------------------------
(* Properties of auto-approval for write actions                          *)

\* C11: a mutate action (insertCell, updateCell, deleteCell, runCell) is
\* auto-approved on the active notebook only if that exact type was granted on
\* it: no grant of a read type and no grant of another mutate type approves it.
C11_MutateNeedsOwnGrant ==
    (autoResult.op = "isActionAutoApproved" /\ IsMutateAction(autoResult.action)) =>
        (autoResult.value <=>
            (autoResult.cur # "none" /\ autoResult.action.type \in autoResult.grants))

\* updateCell was asked about on a notebook holding every grant but its own,
\* and was refused
C11_Witness ==
    /\ autoResult.op = "isActionAutoApproved"
    /\ autoResult.action.type = "updateCell"
    /\ autoResult.grants = {"insertCell", "deleteCell", "runCell", "getOutput"}
    /\ ~autoResult.value

\* the pending actions of message m in the present state
PendingOf(m) ==
    {i \in 0..(Len(messages[m + 1].acts) - 1) : GetActionStatus(actionStatuses, m, i) = "pending"}

\* isActionAutoApproved holds in the present state for the action i of message m
AutoApprovable(m, i) ==
    IsActionAutoApproved(autoApproved, fileAutoApproved, current, messages[m + 1].acts[i + 1])

\* C12: the auto-approve effect moves a status from `pending` to `approved`
\* only when every pending action of that message passes isActionAutoApproved;
\* if one pending action of the message does not, a render leaves every
\* pending action of the message `pending`.
C12_AllOrNothing ==
    [][Render =>
        \A m \in 0..(Len(messages) - 1) :
            (\E i \in PendingOf(m) : ~AutoApprovable(m, i)) =>
                \A i \in PendingOf(m) :
                    HeldStatus(actionStatuses', m, i) \in {"absent", "pending"}]_vars

\* rendered and at rest: a message of two pending actions, the second
\* auto-approvable and the first not, both still pending
C12_Witness ==
    /\ ~Dirty(Now) /\ ~loading /\ ~executingActionsRef
    /\ \E m \in 0..(Len(messages) - 1) :
          /\ PendingOf(m) = {0, 1}
          /\ ~AutoApprovable(m, 0)
          /\ AutoApprovable(m, 1)

-----------------------------------------------------------------------------
(* Properties of cancellation and of the loading flag                     *)

\* the position of the turn that started the exchange now loading: the user's
\* turn, which carries the identity of the abort controller, or, for a
\* feedback send, the last `[Action Results]` turn
StartingTurn ==
    IF abortControllerRef # 0
    THEN {n \in 1..Len(messages) : messages[n].id = abortControllerRef}
    ELSE {n \in 1..Len(messages) :
            /\ messages[n].kind = "[Action Results]"
            /\ \A k \in (n + 1)..Len(messages) : messages[k].kind # "[Action Results]"}

\* C15: after handleCancelLoading during an in-flight model call the history
\* is the history as it was before the turn that started the call was added:
\* that turn is removed, and so is every placeholder assistant turn and
\* generated correction turn of the cancelled exchange.
C15_CancelRestoresHistory ==
    [][UserCancels =>
        \A n \in StartingTurn : messages' = SubSeq(messages, 1, n - 1)]_vars

-----------------------------------------------------------------------------
(* Properties of the scope of auto-approval                               *)

\* C13: auto-approval is cleared when switching notebooks: once the active
\* notebook has changed from X to another one, the grants recorded for X
\* approve nothing any more, also when X becomes the active notebook again.
\* Right after the active notebook has changed, no grant has been recorded
\* since the switch, so isActionAutoApproved holds for no live action.
C13_ClearedOnSwitch ==
    [][current' # current =>
        \A action \in AskedActions :
            ~IsActionAutoApproved(autoApproved', fileAutoApproved', current', action)]_vars

-----------------------------------------------------------------------------
(* Properties of the help actions                                         *)

IsHelpAction(action) == action.type \in {"listHelp", "help"}

\* the messages all of whose actions are help actions
HelpOnly ==
    {m \in 0..(Len(messages) - 1) :
        /\ Len(messages[m + 1].acts) > 0
        /\ \A i \in 1..Len(messages[m + 1].acts) : IsHelpAction(messages[m + 1].acts[i])}

\* C14: a listHelp or help action never requires approval and never enters
\* the approval state machine: it is never `pending`, and a message whose
\* only actions are help actions does not make hasPendingActions true (which
\* disables the input and holds the feedback turn back).
C14_HelpNeedsNoApproval ==
    /\ \A m \in 0..(Len(messages) - 1) : \A i \in 0..(Len(messages[m + 1].acts) - 1) :
          IsHelpAction(messages[m + 1].acts[i + 1]) =>
              GetActionStatus(actionStatuses, m, i) # "pending"
    /\ (\A m \in 0..(Len(messages) - 1) :
            Len(messages[m + 1].acts) > 0 => m \in HelpOnly)
          => ~HasPendingActions(messages, actionStatuses)

-----------------------------------------------------------------------------
(* Properties of the calls to the model                                   *)

\* the sendChat calls awaiting the server's answer
InFlight == {c \in chats : c.phase = "chat"}

\* C16: at most one sendChat call is in flight at any time, whatever the
\* interleaving of user sends, cancels, feedback sends and retries.
C16_OneCallInFlight == Cardinality(InFlight) <= 1

-----------------------------------------------------------------------------
(* Properties of the suspension of the input                              *)

\* some action of the history is still pending or approved
AwaitsDecision ==
    \E m \in 0..(Len(messages) - 1) : \E i \in 0..(Len(messages[m + 1].acts) - 1) :
        HeldStatus(actionStatuses, m, i) \in {"absent", "pending", "approved"}

\* the step puts a turn typed by the user into the history
UserTurnAppended ==
    \E n \in 1..Len(messages') :
        /\ messages'[n].role = "user" /\ messages'[n].kind = "text"
        /\ messages'[n].id >= nextId

\* the step starts a model call on behalf of a user send
UserCallStarted ==
    \E c \in chats' : c.kind = "send" /\ c.id >= nextId

\* C17: while an action is pending or approved, or while loading is set, no
\* step appends a turn typed by the user and no step starts a model call for
\* a user send.
C17_SuspendedWhileUndecided ==
    [][(AwaitsDecision \/ loading) => ~UserTurnAppended /\ ~UserCallStarted]_vars

\* an idle panel with a decision outstanding, a second user send still
\* possible, after a first one went through
C17_Witness ==
    /\ ~Dirty(Now) /\ ~loading /\ AwaitsDecision
    /\ budget.sends > 0 /\ budget.calls > 0
    /\ \E n \in 1..Len(messages) : messages[n].role = "user" /\ messages[n].kind = "text"

-----------------------------------------------------------------------------
(* Properties of a loaded session                                         *)

\* the actions shown that came with the stored session: <<msgIndex, actionIndex>>
LoadedActions ==
    {k \in (0..(Len(messages) - 1)) \X {0} :
        messages[k[1] + 1].id \in StoredIds /\ Len(messages[k[1] + 1].acts) > 0}

\* C18: every action of a message loaded by handleSessionSwitch has the
\* status executed for as long as it is shown: it is never offered for
\* approval (pending) and no operation is ever executed for it again.
C18_LoadedStayExecuted ==
    \A k \in LoadedActions :
        /\ GetActionStatus(actionStatuses, k[1], k[2]) = "executed"
        /\ <<messages[k[1] + 1].id, k[2]>> \notin DOMAIN execCount

\* the stored session has just been loaded
C18_Witness ==
    /\ sessionId = 1 /\ messages = StoredSession /\ ~Dirty(Now)
    /\ actionStatuses = LoadedStatuses(StoredSession)

-----------------------------------------------------------------------------
(* Properties of the privacy filter                                       *)

\* the rule of fs that replaces the raw value v: the first whose pattern
\* matches it (0: none)
RuleOf(fs, v) ==
    IF \E k \in 1..Len(fs) : v \in fs[k].pattern
    THEN CHOOSE k \in 1..Len(fs) :
            v \in fs[k].pattern /\ \A j \in 1..(k - 1) : v \notin fs[j].pattern
    ELSE 0

\* the position of the first occurrence in raw of the value at position p
FirstOf(raw, p) == CHOOSE j \in 1..p : raw[j] = raw[p] /\ \A i \in 1..(j - 1) : raw[i] # raw[p]

\* the number of the value at position p: how many distinct values of its
\* rule occur up to its first occurrence
NumberOf(raw, fs, p) ==
    Cardinality({raw[j] : j \in {i \in 1..FirstOf(raw, p) :
                                    RuleOf(fs, raw[i]) = RuleOf(fs, raw[p])}})

\* the results produced by a call of applyFilters, queued or sent
FilteredEntries ==
    {r \in {pendingResults[n] : n \in 1..Len(pendingResults)}
            \cup UNION {{messages[m].results[n] : n \in 1..Len(messages[m].results)} :
                          m \in 1..Len(messages)} :
        r.enabled /\ r.filters # <<>>}

\* C20: within one applyFilters call, for each rule, every occurrence of the
\* same matched value is replaced by the same label, and the distinct
\* matched values are numbered 1, 2, 3, ... in the order of their first
\* occurrence; every call numbers from 1 again, whatever earlier calls saw.
C20_NumberedPerCall ==
    \A r \in FilteredEntries :
        /\ Len(r.text) = Len(r.raw)
        /\ \A p \in 1..Len(r.raw) :
              IF RuleOf(r.filters, r.raw[p]) = 0
              THEN r.text[p] = r.raw[p]
              ELSE r.text[p] = FormatLabel(r.filters[RuleOf(r.filters, r.raw[p])].label,
                                           NumberOf(r.raw, r.filters, p))

\* a second call in a row, on a text with a value twice and another between
C20_Witness ==
    /\ Len(pendingResults) = 2
    /\ pendingResults[1].enabled /\ pendingResults[1].filters = <<IpRule>>
    /\ pendingResults[1].raw = <<<<"b">>, <<"a">>>>
    /\ pendingResults[1].text = <<<<"P", "1">>, <<"P", "2">>>>
    /\ pendingResults[2].enabled /\ pendingResults[2].filters = <<IpRule>>
    /\ pendingResults[2].raw = <<<<"a">>, <<"b">>, <<"a">>>>
    /\ pendingResults[2].text = <<<<"P", "1">>, <<"P", "2">>, <<"P", "1">>>>

\* C19: within one [Action Results] turn, which may hold the results of
\* several actions, a raw value matched by a rule is replaced, and always
\* by the same label.
C19_OneLabelPerTurn ==
    \A m \in 1..Len(messages) :
        \A n1, n2 \in 1..Len(messages[m].results) :
            LET r1 == messages[m].results[n1]
                r2 == messages[m].results[n2]
            IN  \A p \in 1..Len(r1.raw) : \A q \in 1..Len(r2.raw) :
                    (r1.raw[p] = r2.raw[q] /\ RuleOf(filters, r1.raw[p]) # 0 /\ filterEnabled)
                        => (r1.text[p] = r2.text[q] /\ r1.text[p] # r1.raw[p])

\* a feedback turn with two filtered results
C19_Witness ==
    \E m \in 1..Len(messages) :
        /\ Len(messages[m].results) = 2
        /\ \A n \in 1..2 : messages[m].results[n].enabled
                             /\ messages[m].results[n].filters # <<>>
                             /\ messages[m].results[n].raw # messages[m].results[n].text

-----------------------------------------------------------------------------
(* Properties of a turn whose retries are used up                         *)

\* the last turn ended on a reply that decodes and fails validation, with
\* the retries used up
InvalidToTheEnd ==
    /\ lastTurn.calls > 0
    /\ lastTurn.retryCount = MAX_RETRIES
    /\ lastTurn.raws[lastTurn.calls].decodable
    /\ ~ValidateActions(lastTurn.raws[lastTurn.calls].actions).valid

\* C21: when validation still fails with the retries used up, the turn ends
\* without a further call, its final assistant message carries the action
\* list of the last reply unchanged, and while that message is the last one
\* shown its actions are pending.
C21_AcceptedAsIs ==
    InvalidToTheEnd =>
        /\ lastTurn.calls = MAX_RETRIES + 1
        /\ Len(lastTurn.result) = Len(lastTurn.base) + 1
        /\ LET final == lastTurn.result[Len(lastTurn.result)]
           IN  /\ final.role = "assistant"
               /\ final.acts = lastTurn.raws[lastTurn.calls].actions
               /\ final.acts # <<>>
        /\ messages = lastTurn.result =>
              \A i \in 0..(Len(messages[Len(messages)].acts) - 1) :
                  GetActionStatus(actionStatuses, Len(messages) - 1, i) = "pending"

\* three replies failing validation, the last one shown with its actions
C21_Witness ==
    /\ InvalidToTheEnd
    /\ \A k \in 1..3 : lastTurn.raws[k].decodable
    /\ messages = lastTurn.result
    /\ ~Dirty(Now)

-----------------------------------------------------------------------------
(* Properties of the grants across sessions                               *)

\* some action would be auto-approved with the grants g and the file grants f
SomeGrantInForce(g, f, cur) ==
    \E action \in AskedActions : IsActionAutoApproved(g, f, cur, action)

\* C22: once handleNewSession or handleSessionSwitch has put the panel in
\* another session, no grant recorded before auto-approves an action: both
\* the notebook map and the file map are empty of effect.
C22_GrantsEndWithSession ==
    [][(NewSessionAnswers \/ SessionSwitchAnswers)
          => ~SomeGrantInForce(autoApproved', fileAutoApproved', current')]_vars

-----------------------------------------------------------------------------
(* Properties of the bulk handlers                                        *)

\* every <<msgIndex, actionIndex>> of the history or of a status map
StatusKeys ==
    DOMAIN actionStatuses \cup DOMAIN actionStatuses'
        \cup UNION {{<<m, i>> : i \in 0..(Len(messages[m + 1].acts) - 1)} :
                      m \in 0..(Len(messages) - 1)}

\* the step moved the entry k from pending to the status `to`
Moved(k, to) ==
    /\ GetActionStatus(actionStatuses, k[1], k[2]) = "pending"
    /\ HeldStatus(actionStatuses', k[1], k[2]) = to

\* the step changed entries of message m only, each from pending to `to`
OnlyPendingOf(m, to) ==
    \A k \in StatusKeys :
        \/ HeldStatus(actionStatuses', k[1], k[2]) = HeldStatus(actionStatuses, k[1], k[2])
        \/ k[1] = m /\ Moved(k, to)

GrantsUnchanged == autoApproved' = autoApproved /\ fileAutoApproved' = fileAutoApproved

\* the grant for the action is in the stores after the step
GrantRecorded(action) ==
    IF IsFileQueryAction(action)
    THEN action.type \in fileAutoApproved'[GetFileQueryTargetPath(action)]
    ELSE current # "none" /\ action.type \in autoApproved'[current]

\* the step added a grant for every action of m it approved, and no other
OneGrantPerApproved(m) ==
    LET approved == {i \in 0..(Len(messages[m + 1].acts) - 1) : Moved(<<m, i>>, "approved")}
    IN  /\ \A i \in approved : GrantRecorded(messages[m + 1].acts[i + 1])
        /\ \A p \in Paths :
              autoApproved'[p] \ autoApproved[p]
                  \subseteq {messages[m + 1].acts[i + 1].type : i \in approved}
        /\ \A p \in FilePaths :
              fileAutoApproved'[p] \ fileAutoApproved[p]
                  \subseteq {messages[m + 1].acts[i + 1].type : i \in approved}

\* C23: handleAcceptAll, handleRejectAll and handleAcceptAllAlways on a
\* message change only its pending entries (to approved, rejected, approved);
\* decided entries and the entries of other messages are unchanged; only
\* handleAcceptAllAlways adds grants, one for every action it approved.
C23_BulkFrame ==
    [][/\ UserAcceptsAll =>
             \E m \in MessageIndices : OnlyPendingOf(m, "approved") /\ GrantsUnchanged
       /\ UserRejectsAll =>
             \E m \in MessageIndices : OnlyPendingOf(m, "rejected") /\ GrantsUnchanged
       /\ UserAcceptsAllAlways =>
             \E m \in MessageIndices :
                 OnlyPendingOf(m, "approved") /\ OneGrantPerApproved(m)]_vars

-----------------------------------------------------------------------------
(* Properties of the validator                                            *)

\* validateActions was given an updateCell action with `qeury` for `query`
QueryMisspelt ==
    /\ validated.op = "validateActions"
    /\ validated.actions[1].type = "updateCell"
    /\ "qeury" \in DOMAIN validated.actions[1]
    /\ "query" \notin DOMAIN validated.actions[1]

\* C24: for an updateCell action whose `query` field is misspelt `qeury`,
\* the errors flag the missing required field `query` and the error about
\* `qeury` names `query` as the correction.
C24_MisspeltFieldNamed ==
    QueryMisspelt =>
        /\ ~validated.value.valid
        /\ \E e \in validated.value.errors : e.error = "MissingField" /\ e.field = "query"
        /\ \E e \in validated.value.errors :
              e.error = "UnknownField" /\ e.field = "qeury" /\ e.similar = "query"

\* the action of the example: qeury, source and _hash
C24_Witness ==
    /\ QueryMisspelt
    /\ DOMAIN validated.actions[1] = {"type", "qeury", "source", "hash"}

-----------------------------------------------------------------------------
(* Properties of the cancel button                                        *)

\* C25: cancelling while loading aborts the model call in flight, whether
\* handleSendMessage or the feedback send started it: once the cancel
\* handler has run no call awaits the server, so no reply can reach the
\* history afterwards.
C25_CancelAborts == [][UserCancels => InFlight' = {}]_vars

\* loading, with the feedback call in flight and the cancel button usable
C25_Witness ==
    /\ loading /\ ~Dirty(Now) /\ budget.cancels > 0
    /\ \E c \in InFlight : c.kind = "results"

-----------------------------------------------------------------------------
(* Properties of the order of execution                                   *)

\* the actions (<<message id, actionIndex>>) an operation is begun for in the step
Started ==
    {k \in DOMAIN execCount' : k \notin DOMAIN execCount \/ execCount'[k] > execCount[k]}

\* the step leaves the batch awaiting an action and has begun no action
\* that comes after it in the lists
NoneBegunPastAwaited ==
    batch'.on =>
        \A k \in Started :
            \A n \in 1..Len(batch'.msgs) :
                batch'.msgs[n].id = k[1] =>
                    \/ n - 1 < batch'.m
                    \/ n - 1 = batch'.m /\ k[2] <= batch'.i

\* the results the step adds to the queue
QueuedInStep ==
    IF Len(pendingResults') >= Len(pendingResults)
          /\ SubSeq(pendingResults', 1, Len(pendingResults)) = pendingResults
    THEN SubSeq(pendingResults', Len(pendingResults) + 1, Len(pendingResults'))
    ELSE <<>>

\* the results queued in the step for one message stand in the order of its
\* action list
QueuedInListOrder ==
    \A a, b \in 1..Len(QueuedInStep) :
        (a < b /\ QueuedInStep[a].src[1] = QueuedInStep[b].src[1])
            => QueuedInStep[a].src[2] < QueuedInStep[b].src[2]

\* C26: the actions of a batch are executed one at a time in list order:
\* while an asynchronous action is awaited no other operation is begun, the
\* batch goes on only when it settles, never past an action it awaits, and
\* the results are queued in list order.
C26_OneAtATime ==
    [][/\ (batch.on /\ ~AsyncActionSettles) => Started = {}
       /\ NoneBegunPastAwaited
       /\ QueuedInListOrder]_vars

\* runCell is awaited, an approved action after it has not been begun
C26_Witness ==
    /\ batch.on
    /\ batch.msgs[batch.m + 1].acts[batch.i + 1].type = "runCell"
    /\ \E j \in (batch.i + 1)..(Len(batch.msgs[batch.m + 1].acts) - 1) :
          /\ GetActionStatus(batch.sts, batch.m, j) = "approved"
          /\ <<batch.msgs[batch.m + 1].id, j>> \notin DOMAIN execCount

-----------------------------------------------------------------------------
(* Properties of the filter checkbox                                      *)

\* every result produced so far, queued or sent
ProducedEntries ==
    {pendingResults[n] : n \in 1..Len(pendingResults)}
        \cup UNION {{messages[m].results[n] : n \in 1..Len(messages[m].results)} :
                      m \in 1..Len(messages)}

\* C27: a read result produced while the checkbox is checked, with at least
\* one rule configured, went through applyFilters before it was queued,
\* also when the batch producing it was started before the box was checked.
C27_FilteredWhenChecked ==
    \A r \in ProducedEntries :
        (r.checked /\ filters # <<>>) => r.text = ApplyFilters(r.raw, filters)

\* a result with a value a rule matches, produced with the box checked by a
\* batch started in that state
C27_Witness ==
    \E r \in ProducedEntries :
        /\ r.checked /\ r.enabled /\ r.filters # <<>>
        /\ r.text # r.raw


-----------------------------------------------------------------------------
(* Reading cells: getSection and queryCells of ContextEngine, and          *)
(* getSection and getCells of NotebookFileReader on a stored notebook.     *)
(* A stored notebook is the `cells` of a notebook record; a cell of the    *)
(* file is [id, type, source] with its source already joined.              *)

\* Most cells of a notebook that is read
MaxReadCells == 5
\* Largest count a read is given
MaxCount == 2

\* code units a RegExp `.` does not match, and those `\s` matches
LineTerminators == {10, 13, 8232, 8233}
WhiteSpace ==
    {9, 10, 11, 12, 13, 32, 160, 5760, 8232, 8233, 8239, 8287, 12288, 65279}
        \cup (8192..8202)

RECURSIVE RunLength(_, _, _)
\* how many code units of `set` stand in a row from position p
RunLength(str, p, set) ==
    IF p > Len(str) \/ str[p] \notin set THEN 0
    ELSE 1 + RunLength(str, p + 1, set)

\* /(#{1,6})\s+(.+)$/ tried at position p: the number of # matched, 0: no match.
\* The run of # must end at white space; `\s+` may give white space back to
\* `.+`, which needs one code unit that is no line terminator.
HeadingAt(str, p) ==
    LET Level(k) ==
            IF k \in 1..6
               /\ \E j \in 1..RunLength(str, p + k, WhiteSpace) :
                     /\ p + k + j <= Len(str)
                     /\ str[p + k + j] \notin LineTerminators
            THEN k ELSE 0
    IN  Level(RunLength(str, p, {35}))

\* parseHeading: the level of the first line matching /^(#{1,6})\s+(.+)$/m,
\* 0 for null
ParseHeading(source) ==
    LET starts == {p \in 1..Len(source) :
                      (p = 1 \/ source[p - 1] \in LineTerminators)
                      /\ HeadingAt(source, p) > 0}
    IN  IF starts = {} THEN 0
        ELSE HeadingAt(source, CHOOSE p \in starts : \A q \in starts : p <= q)

RECURSIVE SectionEnd(_, _, _)
\* the loop of getSection from cell i: the index of the first cell whose
\* heading is of the level or above it, or the number of cells
SectionEnd(cells, i, level) ==
    IF i >= Len(cells) THEN Len(cells)
    ELSE IF ParseHeading(cells[i + 1].source) \in 1..level THEN i
    ELSE SectionEnd(cells, i + 1, level)

\* ContextEngine.getSection
GetSection(nb, query) ==
    LET startIndex == FindCellIndex(nb, query)
        EndIndex(heading) ==
            IF heading = 0 THEN startIndex + 1
            ELSE SectionEnd(nb.cells, startIndex + 1, heading)
        Cells(endIndex) ==
            [k \in 1..(endIndex - startIndex) |->
                CellToData(nb.cells[startIndex + k], startIndex + k - 1,
                           GetActiveCellIndex(nb), GetSelectedCellIndices(nb))]
    IN  IF startIndex < 0 THEN Throw(nb, FindError(startIndex))
        ELSE Return(nb, Cells(EndIndex(ParseHeading(nb.cells[startIndex + 1].source))))

\* matchesQuery of the file reader: "yes", "no", or the error it throws
FileMatchesQuery(cell, index, query) ==
    IF "start" \in DOMAIN query THEN (IF index = query.start THEN "yes" ELSE "no")
    ELSE IF "id" \in DOMAIN query THEN (IF cell.id = query.id THEN "yes" ELSE "no")
    ELSE IF "contains" \in DOMAIN query
         THEN (IF Includes(cell.source, query.contains) THEN "yes" ELSE "no")
    ELSE IF "match" \in DOMAIN query
         THEN (IF Includes(cell.source, query.match) THEN "yes" ELSE "no")
    ELSE IF "active" \in DOMAIN query \/ "selected" \in DOMAIN query THEN "Unsupported"
    ELSE "InvalidQuery"

RECURSIVE FileFindFrom(_, _, _)
\* the loop of findCellIndex from cell i: [found, index] or [found, err]
FileFindFrom(cells, query, i) ==
    IF i >= Len(cells) THEN [found |-> FALSE, err |-> "NoMatch"]
    ELSE LET Step(m) ==
                 IF m = "yes" THEN [found |-> TRUE, index |-> i]
                 ELSE IF m = "no" THEN FileFindFrom(cells, query, i + 1)
                 ELSE [found |-> FALSE, err |-> m]
         IN  Step(FileMatchesQuery(cells[i + 1], i, query))

\* findCellIndex of the file reader
FileFindCellIndex(cells, query) == FileFindFrom(cells, query, 0)

\* cellToData of the file reader
FileCellToData(cell, index) ==
    [index |-> index, id |-> cell.id, type |-> cell.type, source |-> cell.source,
     isActive |-> FALSE, isSelected |-> FALSE,
     hash |-> ComputeCellHash(cell.type, cell.source)]

\* NotebookFileReader.getSection
FileGetSection(nb, query) ==
    LET Section(f) ==
            LET EndIndex(heading) ==
                    IF heading = 0 THEN f.index + 1
                    ELSE SectionEnd(nb.cells, f.index + 1, heading)
                Cells(endIndex) ==
                    [k \in 1..(endIndex - f.index) |->
                        FileCellToData(nb.cells[f.index + k], f.index + k - 1)]
            IN  Return(nb, Cells(EndIndex(ParseHeading(nb.cells[f.index + 1].source))))
        Answer(f) == IF f.found THEN Section(f) ELSE Throw(nb, f.err)
    IN  Answer(FileFindCellIndex(nb.cells, query))

\* NotebookFileReader.getCells; count = -1 stands for an absent count
FileGetCells(nb, query, count) ==
    LET Range(f) ==
            LET \* `count ? Math.min(startIndex + count, length) : length`
                endIndex == IF count # -1 /\ count # 0
                            THEN Min(f.index + count, Len(nb.cells))
                            ELSE Len(nb.cells)
            IN  Return(nb, [k \in 1..(IF endIndex > f.index THEN endIndex - f.index ELSE 0) |->
                               FileCellToData(nb.cells[f.index + k], f.index + k - 1)])
        Answer(f) == IF f.found THEN Range(f) ELSE Throw(nb, f.err)
    IN  Answer(FileFindCellIndex(nb.cells, query))

\* sources: a level-1 heading "# A", a level-2 heading "## B", a line "x",
\* and "# c", a comment line of a code cell
Src_H1 == <<35, 32, 65>>
Src_H2 == <<35, 35, 32, 66>>
Src_x == <<120>>
Src_comment == <<35, 32, 99>>

ReadCells ==
    {[type |-> "markdown", source |-> Src_H1], [type |-> "markdown", source |-> Src_H2],
     [type |-> "code", source |-> Src_x], [type |-> "code", source |-> Src_comment]}

ReadCellLists == UNION {[1..n -> ReadCells] : n \in 0..MaxReadCells}

ReadQueries ==
    {[start |-> i] : i \in 0..(MaxReadCells - 1)}
        \cup {[active |-> TRUE], [selected |-> TRUE], [start |-> 0, active |-> TRUE]}

\* -1: no count
ReadCounts == -1..MaxCount

InitRead ==
    /\ current = "X"
    /\ \E cs \in ReadCellLists : \E a \in {0, Len(cs) - 1} :
          notebooks =
              [p \in Paths |->
                  IF p = "X"
                  THEN [cells |-> [k \in 1..Len(cs) |->
                                      [id |-> k, type |-> cs[k].type,
                                       source |-> cs[k].source]],
                        active |-> IF cs = <<>> THEN -1 ELSE a]
                  ELSE [cells |-> <<>>, active |-> -1]]
    /\ nextCellId = MaxReadCells + 1
    /\ engineCall = NoCall
    /\ engineResult = <<>>
    /\ PanelInit(NoBudget)

\* a read is made of the notebook; the call and its outcome are kept.  A read
\* leaves the notebook as it is, so a behaviour makes one: a second read
\* would see what the first one saw.
ReadStep(op, query, count, r) ==
    /\ engineCall = NoCall
    /\ engineCall' = [op |-> op, query |-> query, count |-> count,
                      before |-> notebooks[current]]
    /\ engineResult' = [ok |-> r.ok, err |-> r.err, val |-> r.val]
    /\ UNCHANGED <<current, notebooks, nextCellId>>
    /\ UNCHANGED panelVars

EngineGetsSection ==
    \E query \in ReadQueries :
        ReadStep("getSection", query, -1, GetSection(notebooks[current], query))

EngineQueriesCells ==
    \E query \in ReadQueries : \E count \in ReadCounts :
        ReadStep("queryCells", query, count, QueryCells(notebooks[current], query, count))

FileGetsSection ==
    \E query \in ReadQueries :
        ReadStep("getSectionFromFile", query, -1,
                 FileGetSection(notebooks[current], query))

FileGetsCells ==
    \E query \in ReadQueries : \E count \in ReadCounts :
        ReadStep("getCellsFromFile", query, count,
                 FileGetCells(notebooks[current], query, count))

NextRead ==
    \/ EngineGetsSection
    \/ EngineQueriesCells
    \/ FileGetsSection
    \/ FileGetsCells

SpecRead == InitRead /\ [][NextRead]_vars


-----------------------------------------------------------------------------
(* Properties of the reads                                                 *)

\* a section read that resolved its query
SectionRead ==
    /\ engineCall # NoCall
    /\ engineCall.op \in {"getSection", "getSectionFromFile"}
    /\ engineResult.ok

\* the heading level of a cell as the table of contents has it: that of a
\* markdown cell with a heading line, 0 for any other cell
HeadingLevel(cell) ==
    IF cell.type = "markdown" THEN ParseHeading(cell.source) ELSE 0

\* the indices the returned cells carry, in order
IndicesOf(val) == [k \in 1..Len(val) |-> val[k].index]

\* the indices from `start` up to the first later heading of level <= level,
\* or to the last cell
SectionIndices(cells, start, level) ==
    LET ends == {j \in (start + 1)..(Len(cells) - 1) :
                    HeadingLevel(cells[j + 1]) \in 1..level}
        Upto(e) == [k \in 1..(e - start) |-> start + k - 1]
    IN  IF ends = {} THEN Upto(Len(cells))
        ELSE Upto(CHOOSE j \in ends : \A q \in ends : j <= q)

\* C28: getSection anchored at a heading cell of level L returns that cell
\* and every following cell up to, not including, the first following
\* heading cell of level <= L, or up to the end of the document; anchored
\* at a cell that is no heading it returns that cell alone.  For
\* [H1, code, H2, code, H1] that is [0,1,2,3] from 0 and [2,3] from 2.
C28_SectionOfHeading ==
    SectionRead =>
        LET cells == engineCall.before.cells
            start == engineResult.val[1].index
        IN  IndicesOf(engineResult.val) =
                IF HeadingLevel(cells[start + 1]) = 0 THEN <<start>>
                ELSE SectionIndices(cells, start, HeadingLevel(cells[start + 1]))

\* the document of the example, read from its first heading
C28_Witness ==
    /\ SectionRead
    /\ [k \in 1..Len(engineCall.before.cells) |-> engineCall.before.cells[k].source]
          = <<Src_H1, Src_x, Src_H2, Src_x, Src_H1>>
    /\ engineCall.query = [start |-> 0]
    /\ IndicesOf(engineResult.val) = <<0, 1, 2, 3>>


\* a range read that resolved its query
RangeRead ==
    /\ engineCall # NoCall
    /\ engineCall.op \in {"queryCells", "getCellsFromFile"}
    /\ engineResult.ok

\* the index the query of the call stands for
StartOf(call) ==
    IF "start" \in DOMAIN call.query THEN call.query.start ELSE call.before.active

\* the indices i with from <= i < to, in order
IndexRange(from, to) == [k \in 1..(IF to > from THEN to - from ELSE 0) |-> from + k - 1]

\* C29: a range read with a count, whatever count >= 0 it is given, returns
\* exactly the cells of indices start <= i < min(start + count, length); it
\* returns every cell from start to the end only when no count is given.
C29_CountBoundsRange ==
    RangeRead =>
        IndicesOf(engineResult.val) =
            IF engineCall.count = -1
            THEN IndexRange(StartOf(engineCall), Len(engineCall.before.cells))
            ELSE IndexRange(StartOf(engineCall),
                            Min(StartOf(engineCall) + engineCall.count,
                                Len(engineCall.before.cells)))

\* a count that cuts the range short: one cell of several that follow
C29_Witness ==
    /\ RangeRead
    /\ engineCall.count = 1
    /\ StartOf(engineCall) + 1 < Len(engineCall.before.cells)
    /\ IndicesOf(engineResult.val) = <<StartOf(engineCall)>>


\* a read of a stored notebook with a query that carries `active` or `selected`
UnsupportedFileRead ==
    /\ engineCall # NoCall
    /\ engineCall.op \in {"getSectionFromFile", "getCellsFromFile"}
    /\ DOMAIN engineCall.query \cap {"active", "selected"} # {}

\* C30: against a stored notebook a query with the `active` or `selected` key
\* fails with the 'active/selected queries not supported for file access'
\* error, whatever the notebook holds, also when it holds no cell: it is
\* never resolved to a cell and never reported as 'No cell matches query'.
C30_UnsupportedIsDeclared ==
    UnsupportedFileRead =>
        /\ ~engineResult.ok
        /\ engineResult.err = "Unsupported"

\* the unsupported-query error, thrown for a notebook that has cells
C30_Witness ==
    /\ UnsupportedFileRead
    /\ engineCall.before.cells # <<>>
    /\ ~engineResult.ok
    /\ engineResult.err = "Unsupported"


-----------------------------------------------------------------------------
(* The help actions: replies that ask for listHelp or help, alone or next  *)
(* to a read, and every decision the panel offers on them.                 *)

\* Model calls in a run with help actions
MaxHelpCalls == 2

\* listHelp next to a read
HelpAndReads ==
    Raw(9, TRUE, <<"content">>,
        <<[type |-> "listHelp"], [type |-> "getCells", query |-> [start |-> 0]]>>)
\* help for one action type, next to a read
TopicAndReads ==
    Raw(10, TRUE, <<>>,
        <<[type |-> "getToc"], [type |-> "help", action |-> "getToc"]>>)

HelpReplies == {Plain, AsksHelp, HelpAndReads, TopicAndReads}

InitHelp ==
    /\ TrackerInit
    /\ PanelInit([sends |-> 1, calls |-> MaxHelpCalls, cancels |-> 0,
                  failures |-> 0, sessionOps |-> 0, nbSwitches |-> 1,
                  replies |-> HelpReplies])

NextHelp ==
    \/ Render
    \/ UserSends
    \/ UserApproves
    \/ UserRejects
    \/ UserAcceptsAll
    \/ UserRejectsAll
    \/ UserActivatesNotebook
    \/ ChatReplies
    \/ CreateSessionAnswers

SpecHelp == InitHelp /\ [][NextHelp]_vars



-----------------------------------------------------------------------------
(* Properties of the help actions                                          *)

\* the results produced so far for a help action that was executed
HelpResults ==
    {r \in ProducedEntries :
        \E m \in 1..Len(messages) :
            /\ messages[m].id = r.src[1]
            /\ r.src[2] < Len(messages[m].acts)
            /\ IsHelpAction(messages[m].acts[r.src[2] + 1])}

\* C31: an approved listHelp action yields a result entry of type listHelp
\* and an approved help action one of type help; neither yields an
\* 'Unknown action type' error entry.
C31_HelpIsAnswered ==
    \A r \in HelpResults :
        \E m \in 1..Len(messages) :
            /\ messages[m].id = r.src[1]
            /\ r.type = messages[m].acts[r.src[2] + 1].type
            /\ r.outcome = "result"

\* a help action was approved and executed
C31_Witness == HelpResults # {}


\* some action of the history is shown as pending
AnyPending ==
    \E m \in 0..(Len(messages) - 1) : \E i \in 0..(Len(messages[m + 1].acts) - 1) :
        GetActionStatus(actionStatuses, m, i) = "pending"

\* C32: a message with pending actions can be driven to a state with no
\* pending action by the operations the panel offers; a message whose only
\* action is neither a query nor a mutate action does not stay pending for
\* ever.  Every action shown as pending has an operation that decides it:
\* its own card, or the bulk header of its message.
C32_PendingCanBeDecided ==
    \A m \in 0..(Len(messages) - 1) : \A i \in 0..(Len(messages[m + 1].acts) - 1) :
        GetActionStatus(actionStatuses, m, i) = "pending" =>
            CardPending(m, i) \/ BulkShown(m)

\* a message of two actions, one of them a help action, driven to the end
C32_Witness ==
    /\ ~AnyPending
    /\ \E m \in 1..Len(messages) :
          /\ Len(messages[m].acts) = 2
          /\ \E i \in 1..2 : IsHelpAction(messages[m].acts[i])


-----------------------------------------------------------------------------
(* Properties of the loading flag                                          *)

\* C33: while a sendChat call is in flight and has not been aborted the
\* loading flag is true, and a call started by handleSendMessage still has
\* its abort controller in abortControllerRef: the end or the cancellation
\* of an earlier send clears neither.
C33_LoadingWhileInFlight ==
    \A c \in InFlight :
        /\ loading
        /\ c.signal # 0 => abortControllerRef = c.signal

\* a second send in flight while the first, cancelled, has yet to end
C33_Witness ==
    /\ loading
    /\ \E c \in InFlight : c.kind = "send" /\ abortControllerRef = c.signal
    /\ \E d \in chats : d.phase = "aborted"


-----------------------------------------------------------------------------
(* Properties of the saved sessions                                        *)

\* the turns saved under session s: the ids of its typed and assistant
\* messages (a generated feedback turn has id 0)
SavedTurns(s) == {store[s][n].id : n \in 1..Len(store[s])} \ {0}

\* C34: the message list saved under a session id holds turns of that
\* session only: a reply that arrives after handleNewSession or
\* handleSessionSwitch does not bring the previous session's history into
\* the new session, so no turn is ever saved under two session ids.
C34_SavedUnderOneSession ==
    \A s1, s2 \in 1..Len(store) : s1 # s2 => SavedTurns(s1) \cap SavedTurns(s2) = {}

\* two sessions, each saved with turns of its own, the later one with the
\* model's reply, and the panel switched back to the earlier one
C34_Witness ==
    /\ Len(store) >= 2
    /\ sessionId = 1 /\ messages = store[1] /\ messages # <<>>
    /\ \E n \in 1..Len(store[2]) : store[2][n].role = "assistant"
    /\ SavedTurns(1) \cap SavedTurns(2) = {}
    /\ chats = {} /\ sessionOps = {}


-----------------------------------------------------------------------------
(* Properties of the auto-approve effect                                   *)

\* the assistant message at index m has just arrived: it is the last of the
\* history, the render that shows it is due, and every action of it is pending
NewlyArrived(m) ==
    /\ m = Len(messages) - 1
    /\ messages[m + 1].role = "assistant"
    /\ messages[m + 1].acts # <<>>
    /\ "messages" \in rendered.touched
    /\ \A i \in 0..(Len(messages[m + 1].acts) - 1) :
          HeldStatus(actionStatuses, m, i) = "absent"

\* every action of the message passes isActionAutoApproved as things stand
ArrivesApprovable(m) ==
    /\ NewlyArrived(m)
    /\ \A i \in 1..Len(messages[m + 1].acts) :
          IsActionAutoApproved(autoApproved, fileAutoApproved, current,
                               messages[m + 1].acts[i])

\* nothing is due: no render, no call, no batch, no session operation
Quiescent ==
    /\ ~Dirty(Now)
    /\ chats = {}
    /\ ~batch.on
    /\ sessionOps = {}

\* the render that shows a message arrived with all its actions
\* auto-approvable approves every one of them
ApprovedOnArrival ==
    \A m \in 0..(Len(messages) - 1) :
        (Render /\ ArrivesApprovable(m)) =>
            \A i \in 0..(Len(messages[m + 1].acts) - 1) :
                HeldStatus(actionStatuses', m, i) \in {"approved", "executed"}

\* whatever was approved in a message with nothing left to decide is
\* executed, whatever was executed is sent
NothingLeftBehind ==
    Quiescent =>
        /\ \A m \in 0..(Len(messages) - 1) :
              HasStatus(messages, actionStatuses, m, "approved")
                  => HasStatus(messages, actionStatuses, m, "pending")
        /\ pendingResults # <<>> => AnyPending

\* C35: when every action of a newly arrived assistant message is
\* auto-approvable at its arrival, all of them become executed and their
\* results are sent in a feedback turn without any user operation.  The
\* steps that follow the arrival are the panel's own: the render that shows
\* the message approves all its actions, and the panel comes to rest only
\* with every approved action executed and every result sent.
C35_AutoApprovedRunsThrough == [][ApprovedOnArrival]_vars /\ []NothingLeftBehind

\* a reply with a read has arrived on a notebook that holds a grant for it
C35_Witness ==
    /\ ~loading
    /\ \E m \in 0..(Len(messages) - 1) : ArrivesApprovable(m)

-----------------------------------------------------------------------------
(* How a turn comes to its end: handleSendMessage and sendResults.        *)

\* the model call of turn c comes to its end in this step
Ended(c) == c \in chats /\ \A d \in chats' : d.id # c.id

\* the step ends turn c on the abort path: handleCancelLoading aborted its
\* signal, during sendChat or earlier during createSession
AbortedEnd(c) == UserCancels \/ c.phase = "aborted"

\* what the final assistant message of a turn shows: the parsed reply, the
\* raw text, or the error
FinalKinds == {"content", "(no message)", "raw", "Error"}

\* the history after the step is longer and ends with a final assistant message
ExtendedByFinal ==
    /\ Len(messages') > Len(messages)
    /\ messages'[Len(messages')].role = "assistant"
    /\ messages'[Len(messages')].kind \in FinalKinds

\* a raised loading flag has a model call or a session creation behind it
LoadingHasCall == loading => chats # {}

\* every turn ends with loading false and a final assistant message appended,
\* on every path
SettlesOnEveryPath ==
    \A c \in chats : Ended(c) => (loading' = FALSE /\ ExtendedByFinal)

\* the history after the step is the turn's own history, or the history
\* shown at the step, with one final assistant message appended
FinalAppended(c) ==
    /\ messages' # <<>>
    /\ messages'[Len(messages')].role = "assistant"
    /\ messages'[Len(messages')].kind \in FinalKinds
    /\ \/ messages' = Append(c.base, messages'[Len(messages')])
       \/ messages' = Append(messages, messages'[Len(messages')])

\* a turn ends with loading false; a reply or a failure appends the final
\* assistant message, an abort appends nothing: handleCancelLoading removes
\* the last message and the aborted call returns through its `finally`
SettlesByPath ==
    \A c \in chats : Ended(c) =>
        /\ loading' = FALSE
        /\ IF AbortedEnd(c)
           THEN messages' = IF UserCancels THEN CancelMessages(messages) ELSE messages
           ELSE FinalAppended(c)

-----------------------------------------------------------------------------
(* Auto-approval of the file reads: grants are recorded for actions on    *)
(* notebook files and on the open notebooks, one of the files being the   *)
(* open notebook X itself, and isActionAutoApproved is asked once.        *)

\* the target paths of the file reads: a file that is also open, one that is
\* not, and the default of listNotebookFiles
FileTargets == {"X", "p.ipynb", ""}

FileAskedActions ==
    {[type |-> "getCellsFromFile", path |-> "X", query |-> [start |-> 0]],
     [type |-> "getCellsFromFile", path |-> "p.ipynb", query |-> [start |-> 0]],
     [type |-> "getOutputFromFile", path |-> "X", query |-> [start |-> 0]],
     [type |-> "getOutputFromFile", path |-> "p.ipynb", query |-> [start |-> 0]],
     [type |-> "listNotebookFiles"],
     [type |-> "listNotebookFiles", path |-> "X"]}

LiveAskedActions ==
    {[type |-> "getCells", query |-> [start |-> 0]],
     [type |-> "getOutput", query |-> [start |-> 0]]}

InitFileAuto ==
    /\ TrackerInit
    /\ messages = <<>>
    /\ loading = FALSE
    /\ actionStatuses = <<>>
    /\ pendingResults = <<>>
    /\ autoApproved = NoGrants
    /\ fileAutoApproved = [p \in FileTargets |-> {}]
    /\ sessionId = 0
    /\ executingActionsRef = FALSE
    /\ abortControllerRef = 0
    /\ chats = {}
    /\ batch = NoBatch
    /\ sessionOps = {}
    /\ store = <<>>
    /\ rendered = [touched |-> {}, loading |-> FALSE, sessionId |-> 0, hasPending |-> FALSE]
    /\ budget = NoBudget
    /\ nextId = 1
    /\ execCount = <<>>
    /\ trail = <<>>
    /\ lastTurn = NoTurn
    /\ observed = {}
    /\ autoResult = NoCall
    /\ filters = <<>>
    /\ filterEnabled = TRUE
    /\ validated = NoCall
    /\ applying = {}

\* the addAutoApproval of an "always" approval of a file read
FileGrantIsRecorded ==
    \E action \in FileAskedActions :
        /\ autoResult = NoCall
        /\ fileAutoApproved' = AddAutoApproval(Now, action).fileAutoApproved
        /\ fileAutoApproved' # fileAutoApproved
        /\ autoApproved' = AddAutoApproval(Now, action).autoApproved
        /\ UNCHANGED <<current, autoResult>>

\* the addAutoApproval of an "always" approval of a read of the active notebook
LiveGrantIsRecorded ==
    \E action \in LiveAskedActions :
        /\ autoResult = NoCall
        /\ autoApproved' = AddAutoApproval(Now, action).autoApproved
        /\ autoApproved' # autoApproved
        /\ fileAutoApproved' = AddAutoApproval(Now, action).fileAutoApproved
        /\ UNCHANGED <<current, autoResult>>

\* isActionAutoApproved is asked about a file read or a live read; the two
\* grant maps are kept with the answer
FileAutoApprovalIsAsked ==
    \E action \in FileAskedActions \cup LiveAskedActions :
        /\ autoResult = NoCall
        /\ autoResult' =
              [op |-> "isActionAutoApproved", action |-> action, cur |-> current,
               auto |-> autoApproved, fileAuto |-> fileAutoApproved,
               value |-> IsActionAutoApproved(autoApproved, fileAutoApproved, current,
                                              action)]
        /\ UNCHANGED <<autoApproved, fileAutoApproved, current>>

NextFileAuto ==
    \/ FileGrantIsRecorded /\ UNCHANGED autoFrame
    \/ LiveGrantIsRecorded /\ UNCHANGED autoFrame
    \/ NotebookIsActivated /\ UNCHANGED autoFrame
    \/ FileAutoApprovalIsAsked /\ UNCHANGED autoFrame

SpecFileAuto == InitFileAuto /\ [][NextFileAuto]_vars

\* the answer kept is about a file read
FileAsked ==
    /\ autoResult.op = "isActionAutoApproved"
    /\ autoResult.action.type \in FILE_QUERY_TYPES

\* the answer kept is about a read of the active notebook
LiveAsked ==
    /\ autoResult.op = "isActionAutoApproved"
    /\ autoResult.action.type \notin FILE_QUERY_TYPES

\* the path a file read is made on; listNotebookFiles without one lists ""
AskedPath ==
    IF "path" \in DOMAIN autoResult.action THEN autoResult.action.path ELSE ""

\* C37: a file read is auto-approved exactly when a grant was recorded for
\* its own type on its own target path: grants of other file types, grants
\* on other paths and grants of the active notebook (even when the notebook
\* is the file) do not approve it; and a read of the active notebook is
\* approved only when that notebook holds a grant, whatever the file grants.
C37_FileGrantsAreExact ==
    /\ FileAsked => (autoResult.value <=>
                        autoResult.action.type \in autoResult.fileAuto[AskedPath])
    /\ LiveAsked => (autoResult.value =>
                        /\ autoResult.cur # "none"
                        /\ autoResult.auto[autoResult.cur] # {})

\* getCellsFromFile on X is refused while X is the active notebook and holds
\* getOutput, getOutputFromFile is granted on X and getCellsFromFile on p.ipynb
C37_Witness ==
    /\ FileAsked
    /\ autoResult.action = [type |-> "getCellsFromFile", path |-> "X",
                            query |-> [start |-> 0]]
    /\ autoResult.cur = "X"
    /\ "getOutput" \in autoResult.auto["X"]
    /\ "getOutputFromFile" \in autoResult.fileAuto["X"]
    /\ "getCellsFromFile" \in autoResult.fileAuto["p.ipynb"]
    /\ ~autoResult.value

-----------------------------------------------------------------------------
(* A read followed by a write: the engine returns cells with their        *)
(* `_hash`, the user may edit the notebook, and updateCell or deleteCell   *)
(* is called with a hash the read returned.                               *)

ReadOps == {"queryCells", "getSection"}

\* queryCells or getSection is called on the active notebook
EngineReadsCells ==
    /\ engineCall = NoCall
    /\ \E op \in ReadOps : \E query \in Queries :
          LET r == IF op = "queryCells"
                   THEN QueryCells(notebooks[current], query, -1)
                   ELSE GetSection(notebooks[current], query)
          IN  /\ engineCall' = [op |-> op, query |-> query,
                                before |-> notebooks[current]]
              /\ engineResult' = [ok |-> r.ok, err |-> r.err, val |-> r.val]
    /\ UNCHANGED <<current, notebooks, nextCellId>>
    /\ UNCHANGED panelVars

\* the user retypes a cell or changes its type after the read
UserEditsCell ==
    /\ engineCall.op \in ReadOps
    /\ \E k \in 1..Len(notebooks[current].cells) :
       \E t \in CellTypes : \E src \in Sources :
          /\ <<t, src>> # <<notebooks[current].cells[k].type,
                            notebooks[current].cells[k].source>>
          /\ notebooks' = [notebooks EXCEPT ![current].cells[k].type = t,
                                            ![current].cells[k].source = src]
    /\ UNCHANGED <<current, nextCellId, engineCall, engineResult>>
    /\ UNCHANGED panelVars

\* the user deletes a cell after the read
UserDeletesCell ==
    /\ engineCall.op \in ReadOps
    /\ \E k \in 1..Len(notebooks[current].cells) :
          notebooks' =
             [notebooks EXCEPT
                 ![current].cells = RemoveAt(@, k),
                 ![current].active =
                     IF Len(notebooks[current].cells) > 1
                     THEN Min(@, Len(notebooks[current].cells) - 2)
                     ELSE -1]
    /\ UNCHANGED <<current, nextCellId, engineCall, engineResult>>
    /\ UNCHANGED panelVars

\* the queries a caller may address a cell it has read with
QueriesFor(data) == {[id |-> data.id], [start |-> data.index], [active |-> TRUE]}

\* the write is kept with the cell data whose hash it carries
WriteStep(op, query, source, data, r) ==
    /\ engineCall' = [op |-> op, query |-> query, source |-> source,
                      hash |-> data.hash, read |-> data,
                      before |-> notebooks[current]]
    /\ engineResult' = [ok |-> r.ok, err |-> r.err, val |-> r.val]
    /\ notebooks' = [notebooks EXCEPT ![current] = r.nb]
    /\ UNCHANGED <<current, nextCellId>>
    /\ UNCHANGED panelVars

\* updateCell with the `_hash` of a cell the read returned
EngineUpdatesReadCell ==
    /\ engineCall.op \in ReadOps
    /\ engineResult.ok
    /\ \E k \in 1..Len(engineResult.val) :
       \E query \in QueriesFor(engineResult.val[k]) : \E source \in Sources :
          WriteStep("updateCell", query, source, engineResult.val[k],
                    UpdateCell(notebooks[current], query, source,
                               engineResult.val[k].hash))

\* deleteCell with the `_hash` of a cell the read returned
EngineDeletesReadCell ==
    /\ engineCall.op \in ReadOps
    /\ engineResult.ok
    /\ \E k \in 1..Len(engineResult.val) :
       \E query \in QueriesFor(engineResult.val[k]) :
          WriteStep("deleteCell", query, <<>>, engineResult.val[k],
                    DeleteCell(notebooks[current], query, engineResult.val[k].hash))

NextHash ==
    \/ EngineReadsCells
    \/ UserEditsCell
    \/ UserDeletesCell
    \/ EngineUpdatesReadCell
    \/ EngineDeletesReadCell

SpecHash == InitEngine /\ [][NextHash]_vars

\* a write carrying a read's hash was made and its query resolved to a cell
WriteAfterRead ==
    /\ engineCall.op \in {"updateCell", "deleteCell"}
    /\ "read" \in DOMAIN engineCall
    /\ FindCellIndex(engineCall.before, engineCall.query) >= 0

\* the cell the write's query resolved to, as it was when the write was made
ResolvedCell ==
    engineCall.before.cells[FindCellIndex(engineCall.before, engineCall.query) + 1]

\* (type, source) of the resolved cell are those the read returned
SameAsRead ==
    /\ ResolvedCell.type = engineCall.read.type
    /\ ResolvedCell.source = engineCall.read.source

\* the notebook after the write is the one before it with the write applied
WriteApplied ==
    LET index == FindCellIndex(engineCall.before, engineCall.query)
        now == notebooks[current].cells
    IN  IF engineCall.op = "updateCell"
        THEN /\ Len(now) = Len(engineCall.before.cells)
             /\ now[index + 1].source = engineCall.source
             /\ \A k \in 1..Len(now) :
                   k # index + 1 => now[k] = engineCall.before.cells[k]
        ELSE now = RemoveAt(engineCall.before.cells, index + 1)

\* C38: a write that carries the `_hash` a read returned, and whose query
\* resolves to a cell with the type and source that were read, passes the
\* hash check and is applied; and such a write is refused for its hash only
\* when the resolved cell's type or source differs from what was read.
C38_ReadHashIsAccepted ==
    WriteAfterRead =>
        /\ SameAsRead => (engineResult.ok /\ WriteApplied)
        /\ ~engineResult.ok => (engineResult.err = "HashMismatch" /\ ~SameAsRead)

\* a cell was read, another cell was edited, and the update of the read
\* cell went through
C38_Witness ==
    /\ WriteAfterRead
    /\ engineCall.op = "updateCell"
    /\ SameAsRead
    /\ engineResult.ok
    /\ engineCall.source # engineCall.read.source
    /\ Len(engineCall.before.cells) = 2
    /\ engineCall.read.index = 1
    /\ engineCall.before.cells[1].source # engineCall.before.cells[2].source

-----------------------------------------------------------------------------
(* The table of contents and the sections read against it.                *)

\* getToc: one entry for every markdown cell whose source has a heading
\* line, in document order; the heading text is left out
GetToc(nb) ==
    LET Heading(i) == /\ nb.cells[i + 1].type = "markdown"
                      /\ ParseHeading(nb.cells[i + 1].source) # 0
        found == SelectSeq([k \in 1..Len(nb.cells) |-> k - 1], Heading)
    IN  [k \in 1..Len(found) |->
            [level |-> ParseHeading(nb.cells[found[k] + 1].source),
             cellIndex |-> found[k],
             cellId |-> nb.cells[found[k] + 1].id]]

\* NotebookFileReader.getToc: the same loop over the cells of the file
FileGetToc(nb) ==
    LET Heading(i) == /\ nb.cells[i + 1].type = "markdown"
                      /\ ParseHeading(nb.cells[i + 1].source) # 0
        found == SelectSeq([k \in 1..Len(nb.cells) |-> k - 1], Heading)
    IN  [k \in 1..Len(found) |->
            [level |-> ParseHeading(nb.cells[found[k] + 1].source),
             cellIndex |-> found[k],
             cellId |-> nb.cells[found[k] + 1].id]]

\* the table of contents of the notebook the section was read from
TocOfRead ==
    IF engineCall.op = "getSection" THEN GetToc(engineCall.before)
    ELSE FileGetToc(engineCall.before)

\* where a section anchored at entry a of the table toc ends: the index of
\* the next entry of level <= a's, or the number of cells
TocEnd(toc, a, length) ==
    LET later == {k \in (a + 1)..Len(toc) : toc[k].level <= toc[a].level}
    IN  IF later = {} THEN length
        ELSE toc[CHOOSE k \in later : \A q \in later : k <= q].cellIndex

\* C39: getSection is consistent with getToc.  Anchored at a cell that is
\* an entry of the table of contents, the section runs from the anchor to
\* just before the next entry of the same or a higher rank (level <=), or to
\* the end of the document; anchored at a cell that is no entry (a code or
\* raw cell), it is that cell alone.
C39_SectionFollowsToc ==
    SectionRead =>
        LET toc == TocOfRead
            start == engineResult.val[1].index
            anchors == {a \in 1..Len(toc) : toc[a].cellIndex = start}
            Upto(e) == [k \in 1..(e - start) |-> start + k - 1]
        IN  IndicesOf(engineResult.val) =
                IF anchors = {} THEN <<start>>
                ELSE Upto(TocEnd(toc, CHOOSE a \in anchors : TRUE,
                                 Len(engineCall.before.cells)))

\* a section read from a level-2 heading that has a code cell under it and
\* a level-1 heading after it: it ends before that heading
C39_Witness ==
    /\ SectionRead
    /\ Len(engineCall.before.cells) = 4
    /\ Len(GetToc(engineCall.before)) = 3
    /\ engineCall.before.cells[2].source = Src_H2
    /\ engineCall.before.cells[3].type = "code"
    /\ IndicesOf(engineResult.val) = <<1, 2>>

-----------------------------------------------------------------------------
(* The simple-variant panel (panel.tsx): statuses pending, shared,        *)
(* dismissed, applied, cancelled.  One assistant message with actions is  *)
(* shown; handleActionApply awaits executeMutateAction, which for runCell *)
(* returns only when the cell has run.                                    *)

MaxApplyClicks == 3

\* index of the assistant message that carries the actions
SimpleMsg == CHOOSE m \in 0..(Len(messages) - 1) : messages[m + 1].acts # <<>>

SIMPLE_QUERY_ACTION_TYPES == {"getToc", "getSection", "getCells", "getOutput"}

Act_run == [type |-> "runCell", query |-> [start |-> 0]]
Act_ins == [type |-> "insertCell", position |-> "end", cellType |-> "code", source |-> Src_a]
Act_get == [type |-> "getCells", query |-> [start |-> 0]]

\* the action lists the message may carry
SimpleActionLists ==
    {<<Act_run>>, <<Act_run, Act_get>>, <<Act_get, Act_run>>, <<Act_ins, Act_run>>}

SimpleActs == messages[SimpleMsg + 1].acts

\* execCount is kept by message id and action index
ExecKey(i) == <<messages[SimpleMsg + 1].id, i>>

InitSimple ==
    /\ TrackerInit
    /\ \E acts \in SimpleActionLists :
          messages = <<Message(1, "user", "text", 0, <<>>, <<>>, FALSE),
                       Message(2, "assistant", "content", 0, <<>>, acts, FALSE)>>
    /\ loading = FALSE
    /\ actionStatuses = <<>>
    /\ pendingResults = <<>>
    /\ autoApproved = NoGrants
    /\ fileAutoApproved = NoFileGrants
    /\ sessionId = 0
    /\ executingActionsRef = FALSE
    /\ abortControllerRef = 0
    /\ chats = {}
    /\ batch = NoBatch
    /\ sessionOps = {}
    /\ store = <<>>
    /\ rendered = [touched |-> {}, loading |-> FALSE, sessionId |-> 0, hasPending |-> TRUE]
    /\ budget = [clicks |-> MaxApplyClicks]
    /\ nextId = 3
    /\ execCount = <<>>
    /\ trail = <<>>
    /\ lastTurn = NoTurn
    /\ observed = {}
    /\ autoResult = NoCall
    /\ filters = <<>>
    /\ filterEnabled = TRUE
    /\ validated = NoCall
    /\ applying = {}

\* what the handlers of the simple panel read and write
SimpleNow ==
    [sts |-> actionStatuses, res |-> pendingResults, nb |-> notebooks[current],
     exec |-> execCount, app |-> applying, nextCell |-> nextCellId, nextId |-> nextId]

SimpleCommit(st) ==
    /\ actionStatuses' = st.sts
    /\ pendingResults' = st.res
    /\ notebooks' = [notebooks EXCEPT ![current] = st.nb]
    /\ execCount' = st.exec
    /\ applying' = st.app
    /\ nextCellId' = st.nextCell
    /\ nextId' = st.nextId
    /\ UNCHANGED <<current, engineCall, engineResult, autoApproved, fileAutoApproved,
                   sessionId, executingActionsRef, abortControllerRef, chats, batch,
                   sessionOps, store, rendered, trail, lastTurn, observed, autoResult,
                   filters, filterEnabled, validated>>

\* setActionStatus of the simple panel
SimpleSetStatus(sts, i, status) ==
    [k \in DOMAIN sts \cup {<<SimpleMsg, i>>} |->
        IF k = <<SimpleMsg, i>> THEN status ELSE sts[k]]

\* hasPendingActions
SimpleHasPending(sts) ==
    \E i \in 0..(Len(SimpleActs) - 1) : GetActionStatus(sts, SimpleMsg, i) = "pending"

\* one more run of the operation of action i
SimpleRan(exec, key) ==
    [k \in DOMAIN exec \cup {key} |->
        IF k = key THEN (IF key \in DOMAIN exec THEN exec[key] ELSE 0) + 1
        ELSE exec[k]]

SimpleEntry(type, ok, key) ==
    [type |-> type, outcome |-> IF ok THEN "result" ELSE "error", detail |-> "",
     src |-> key]

\* handleActionShare: the status first, then the query and its result
SimpleShare(st, i, action) ==
    [st EXCEPT !.sts = SimpleSetStatus(@, i, "shared"),
               !.res = Append(@, SimpleEntry(action.type,
                                             QueryCells(st.nb, action.query, -1).ok,
                                             ExecKey(i)))]

\* handleActionApply after its await: the result is queued, the status set
SimpleApplied(st, i, type, ok) ==
    [st EXCEPT !.res = Append(@, SimpleEntry(type, ok, ExecKey(i))),
               !.sts = SimpleSetStatus(@, i, "applied")]

\* handleActionApply up to the point where it has to wait.  runCell resolves
\* the cell and then awaits NotebookActions.run: the call is kept in
\* `applying` (loop: it was made by handleAcceptAll, which goes on after it
\* with the statuses `seen` of its render).  Any other mutate action, or a
\* runCell whose query resolves to no cell, is over before anything else runs.
SimpleApply(st, i, action, loop, seen) ==
    IF action.type = "runCell"
    THEN LET Begun(r) ==
                 IF r.ok
                 THEN [st EXCEPT !.nb = r.nb,
                                 !.exec = SimpleRan(@, ExecKey(i)),
                                 !.app = @ \cup {[id |-> st.nextId, i |-> i,
                                                  loop |-> loop, seen |-> seen]},
                                 !.nextId = @ + 1]
                 ELSE SimpleApplied(st, i, "runCell", FALSE)
         IN  Begun(RunCellBegin(st.nb, action.query))
    ELSE LET Done(r) ==
                 [SimpleApplied(st, i, action.type, r.ok) EXCEPT
                     !.nb = r.nb,
                     !.exec = SimpleRan(@, ExecKey(i)),
                     !.nextCell = @ + 1]
         IN  Done(InsertCell(st.nb, action.position, action.cellType, action.source,
                             st.nextCell))

RECURSIVE SimpleAcceptLoop(_, _, _, _)
\* the loop of handleAcceptAll from action i on; getActionStatus is the one
\* of the render the handler belongs to (seen), and the loop stops where
\* handleActionApply has to wait
SimpleAcceptLoop(st, i, seen, acts) ==
    IF i >= Len(acts) THEN st
    ELSE IF GetActionStatus(seen, SimpleMsg, i) # "pending"
    THEN SimpleAcceptLoop(st, i + 1, seen, acts)
    ELSE IF acts[i + 1].type \in SIMPLE_QUERY_ACTION_TYPES
    THEN SimpleAcceptLoop(SimpleShare(st, i, acts[i + 1]), i + 1, seen, acts)
    ELSE IF acts[i + 1].type \in MUTATE_ACTION_TYPES
    THEN LET Go(st1) == IF st1.app # st.app THEN st1
                        ELSE SimpleAcceptLoop(st1, i + 1, seen, acts)
         IN  Go(SimpleApply(st, i, acts[i + 1], TRUE, seen))
    ELSE SimpleAcceptLoop(st, i + 1, seen, acts)

\* the send effect is due: nothing pending, results queued, not loading
SimpleSendDue ==
    /\ ~SimpleHasPending(actionStatuses)
    /\ pendingResults # <<>>
    /\ ~loading

\* a click on Apply of a card that shows its buttons (status pending)
UserAppliesAction ==
    /\ ~SimpleSendDue
    /\ budget.clicks > 0
    /\ \E i \in 0..(Len(SimpleActs) - 1) :
          /\ GetActionStatus(actionStatuses, SimpleMsg, i) = "pending"
          /\ SimpleActs[i + 1].type \in MUTATE_ACTION_TYPES
          /\ SimpleCommit(SimpleApply(SimpleNow, i, SimpleActs[i + 1], FALSE, <<>>))
    /\ budget' = [budget EXCEPT !.clicks = @ - 1]
    /\ UNCHANGED <<messages, loading>>

\* a click on Accept All of the bulk header
UserAcceptsAllShown ==
    /\ ~SimpleSendDue
    /\ budget.clicks > 0
    /\ SimpleHasPending(actionStatuses)
    /\ Len(SimpleActs) > 1
    /\ SimpleCommit(SimpleAcceptLoop(SimpleNow, 0, actionStatuses, SimpleActs))
    /\ budget' = [budget EXCEPT !.clicks = @ - 1]
    /\ UNCHANGED <<messages, loading>>

\* handleActionCancel
UserCancelsAction ==
    /\ ~SimpleSendDue
    /\ \E i \in 0..(Len(SimpleActs) - 1) :
          /\ GetActionStatus(actionStatuses, SimpleMsg, i) = "pending"
          /\ SimpleActs[i + 1].type \in MUTATE_ACTION_TYPES
          /\ SimpleCommit([SimpleNow EXCEPT !.sts = SimpleSetStatus(@, i, "cancelled")])
    /\ UNCHANGED <<messages, loading, budget>>

\* a click on Share of a query card
UserSharesAction ==
    /\ ~SimpleSendDue
    /\ \E i \in 0..(Len(SimpleActs) - 1) :
          /\ GetActionStatus(actionStatuses, SimpleMsg, i) = "pending"
          /\ SimpleActs[i + 1].type \in SIMPLE_QUERY_ACTION_TYPES
          /\ SimpleCommit(SimpleShare(SimpleNow, i, SimpleActs[i + 1]))
    /\ UNCHANGED <<messages, loading, budget>>

\* NotebookActions.run is over: handleActionApply goes on after its await,
\* and so does the handleAcceptAll that called it
RunCellSettles ==
    /\ ~SimpleSendDue
    /\ \E c \in applying :
          LET Then(st) == IF c.loop
                          THEN SimpleAcceptLoop(st, c.i + 1, c.seen, SimpleActs)
                          ELSE st
          IN  SimpleCommit(Then(SimpleApplied([SimpleNow EXCEPT !.app = @ \ {c}],
                                              c.i, "runCell", TRUE)))
    /\ UNCHANGED <<messages, loading, budget>>

\* the send effect: the queued results leave in a feedback message
SimpleResultsAreSent ==
    /\ SimpleSendDue
    /\ loading' = TRUE
    /\ pendingResults' = <<>>
    /\ messages' = Append(messages, Message(0, "user", "[Action Results]", 0,
                                            pendingResults, <<>>, TRUE))
    /\ UNCHANGED <<engineVars, actionStatuses, autoApproved, fileAutoApproved, sessionId,
                   executingActionsRef, abortControllerRef, chats, batch, sessionOps,
                   store, rendered, budget, nextId, execCount, trail, lastTurn, observed,
                   autoResult, filters, filterEnabled, validated, applying>>

\* the model answers the feedback with a plain message
FeedbackIsAnswered ==
    /\ loading
    /\ loading' = FALSE
    /\ messages' = Append(messages, Message(0, "assistant", "content", 0,
                                            <<>>, <<>>, FALSE))
    /\ UNCHANGED <<engineVars, actionStatuses, pendingResults, autoApproved,
                   fileAutoApproved, sessionId, executingActionsRef, abortControllerRef,
                   chats, batch, sessionOps, store, rendered, budget, nextId, execCount,
                   trail, lastTurn, observed, autoResult, filters, filterEnabled,
                   validated, applying>>

NextSimple ==
    \/ UserAppliesAction
    \/ UserAcceptsAllShown
    \/ UserCancelsAction
    \/ UserSharesAction
    \/ RunCellSettles
    \/ SimpleResultsAreSent
    \/ FeedbackIsAnswered

SpecSimple == InitSimple /\ [][NextSimple]_vars

\* the result entries queued or already sent for the action with this key
SimpleEntriesFor(key) ==
    {<<0, k>> : k \in {k \in 1..Len(pendingResults) : pendingResults[k].src = key}}
    \cup UNION {{<<m, k>> : k \in {k \in 1..Len(messages[m].results) :
                                         messages[m].results[k].src = key}} :
                   m \in 1..Len(messages)}

\* C40: in the simple panel a mutate action is executed at most once, also
\* while handleActionApply awaits runCell and Apply or Accept All is clicked
\* again, and exactly one result entry is queued for it once it is applied.
C40_AppliedAtMostOnce ==
    \A i \in 0..(Len(SimpleActs) - 1) :
        SimpleActs[i + 1].type \in MUTATE_ACTION_TYPES =>
            /\ ExecKey(i) \in DOMAIN execCount => execCount[ExecKey(i)] <= 1
            /\ Cardinality(SimpleEntriesFor(ExecKey(i))) <= 1
            /\ GetActionStatus(actionStatuses, SimpleMsg, i) = "applied"
                  => Cardinality(SimpleEntriesFor(ExecKey(i))) = 1

\* runCell was applied once and is still running: its card still shows
\* pending and Apply can be clicked again
C40_Witness ==
    \E c \in applying :
        /\ GetActionStatus(actionStatuses, SimpleMsg, c.i) = "pending"
        /\ execCount[ExecKey(c.i)] = 1
        /\ budget.clicks > 0

=============================================================================
